---- MODULE Spec2Model ----
(***************************************************************************)
(* A model of the NextjsSite construct of cdk-opennext (src/open-next.ts). *)
(*                                                                         *)
(* The construct reads open-next.output.json (the build manifest), and in  *)
(* one synchronous pass of its constructor declares the resources that     *)
(* serve the application: bucket, revalidation table and queue, one Lambda *)
(* function per function origin, cache policy, distribution, DNS records   *)
(* and the warmer.  The constructor is modelled one statement group at a   *)
(* time (pc is the constructor's position), so that the state at the       *)
(* moment of a throw is a state of the model.                              *)
(*                                                                         *)
(* Optional values (undefined in the source) are None == <<>>, and a       *)
(* present value v is Some(v) == <<v>>.                                    *)
(***************************************************************************)
EXTENDS Integers, Sequences, FiniteSets, TLC

None == <<>>
Some(v) == <<v>>
\* a ?? d
OrElse(a, d) == IF a = None THEN d ELSE a[1]
\* { ...a, ...b }: the keys of both, b's value on a collision
Spread(a, b) == [k \in DOMAIN a \cup DOMAIN b |-> IF k \in DOMAIN b THEN b[k] ELSE a[k]]
SeqToSet(s) == {s[i] : i \in 1..Len(s)}

(***************************************************************************)
(* Bounds of the input space.                                              *)
(***************************************************************************)
\* warm ranges over omitted, false and the numbers -1..MaxWarm
MaxWarm == 2
\* manifests carry every behaviour list of at most MaxBehaviors entries
MaxBehaviors == 2

(***************************************************************************)
(* The build manifest, open-next.output.json (OpenNextOutput).             *)
(***************************************************************************)
Patterns == {"*", "_next/image*", "_next/static/*"}
\* origin names a behaviour may carry: the three required origins, the two
\* extra origins of RestOrigins, and a name no origin has
OriginRefs == {None, Some("default"), Some("s3"), Some("imageOptimizer"),
               Some("api"), Some("docs"), Some("ghost")}
BehaviorEntries == [pattern : Patterns, origin : OriginRefs]

\* mockOpenNextOutput.behaviors of the test-suite
StdBehaviors ==
  << [pattern |-> "*", origin |-> Some("default")],
     [pattern |-> "_next/image*", origin |-> Some("imageOptimizer")],
     [pattern |-> "_next/static/*", origin |-> Some("s3")] >>

BehaviorLists ==
  {StdBehaviors} \cup UNION {[1..n -> BehaviorEntries] : n \in 0..MaxBehaviors}

FunctionOrigin(bundle, streaming) ==
  [type |-> "function", handler |-> "index.handler", bundle |-> bundle,
   streaming |-> streaming]

\* extra origins (the ...restOrigins of createOrigins), in key order: one of
\* type "function" and one of type "s3"
RestOrigins ==
  << [key |-> "api", origin |-> FunctionOrigin("api-function", Some(TRUE))],
     [key |-> "docs", origin |-> [type |-> "s3", originPath |-> "/docs", copy |-> <<>>]] >>

StdCopy == << [from |-> "assets", to |-> "_assets"] >>

\* a manifest as parsed from the file
OpenNextOutput(warmer, behaviors, rest) ==
  [origins |->
     [s3 |-> [type |-> "s3", originPath |-> "/static", copy |-> StdCopy],
      default |-> FunctionOrigin("server-function", Some(FALSE)),
      imageOptimizer |-> FunctionOrigin("image-optimization-function", Some(FALSE)),
      rest |-> rest],
   behaviors |-> behaviors,
   warmer |-> IF warmer THEN Some([handler |-> "index.handler", bundle |-> "warmer-function"])
              ELSE None]

\* what readFileSync and JSON.parse find at openNextPath
ManifestFile(content) == [status |-> "ok", content |-> Some(content)]
MissingFile == [status |-> "ENOENT", content |-> None]
MalformedFile == [status |-> "SyntaxError", content |-> None]

(***************************************************************************)
(* The configuration, NextjsSiteProps.                                     *)
(***************************************************************************)
WarmOmitted == [kind |-> "omitted", n |-> 0]
WarmFalse == [kind |-> "false", n |-> 0]
WarmNumber(n) == [kind |-> "number", n |-> n]
WarmValues == {WarmOmitted, WarmFalse} \cup {WarmNumber(n) : n \in (-1)..MaxWarm}

\* Duration values, in seconds: 5 and 10 minutes, and 90 seconds, which is
\* no whole number of minutes
IntervalValues == {None, Some(300), Some(600), Some(90)}
OptBool == {None, Some(TRUE), Some(FALSE)}

DomainName == "example.com"
CustomDomain(certificate, hostedZone) ==
  [domainName |-> DomainName, certificate |-> certificate, hostedZone |-> hostedZone]
CustomDomainValues ==
  {None} \cup {Some(CustomDomain(c, z)) : c \in BOOLEAN, z \in BOOLEAN}

\* keys a caller may put in defaultFunctionProps.environment: a server key,
\* an image optimizer key, the warming flag and a key of the caller's own
OverrideKeys == {"CACHE_BUCKET_NAME", "BUCKET_NAME", "WARMER_ENABLED", "CUSTOM_VAR"}
CallerValue == "caller-value"
EnvBags == {[k \in K |-> CallerValue] : K \in SUBSET OverrideKeys}

FunctionProps(environment) ==
  [environment |-> environment, memorySize |-> None, timeout |-> None,
   runtime |-> None, architecture |-> None]
FunctionPropsValues == {None} \cup {Some(FunctionProps(Some(e))) : e \in EnvBags}

NextjsSiteProps(warm, interval, prewarm, createDist, domain, fnProps) ==
  [warm |-> warm, warmerInterval |-> interval, prewarmOnDeploy |-> prewarm,
   createDistribution |-> createDist, customDomain |-> domain,
   defaultFunctionProps |-> fnProps]

(***************************************************************************)
(* The inputs of a construction: the file on disk and the props.  The      *)
(* input space is the union of three families, each the full product of    *)
(* the fields it varies.                                                   *)
(***************************************************************************)
Input(file, p) == [file |-> file, props |-> p]

\* warming: every warm, interval and pre-warm setting, with and without a
\* warmer in the manifest, with and without a distribution, and with and
\* without a caller's WARMER_ENABLED
WarmingInputs ==
  {Input(ManifestFile(OpenNextOutput(w, StdBehaviors, RestOrigins)),
         NextjsSiteProps(warm, i, pre, cd, None, fp)) :
     w \in BOOLEAN, warm \in WarmValues, i \in IntervalValues, pre \in OptBool,
     cd \in {None, Some(FALSE)},
     fp \in {None, Some(FunctionProps(Some([k \in {"WARMER_ENABLED"} |-> CallerValue])))}}

\* routing: every behaviour list, with and without a distribution and
\* with and without extra origins
RoutingInputs ==
  {Input(ManifestFile(OpenNextOutput(FALSE, b, rest)),
         NextjsSiteProps(WarmOmitted, None, None, cd, None, None)) :
     b \in BehaviorLists, rest \in {<<>>, RestOrigins}, cd \in {None, Some(FALSE)}}

\* domains and environments: every custom domain, distribution switch and
\* override bag, over a good manifest, one with an unknown origin, a
\* missing file and an unparsable one
DomainInputs ==
  {Input(f, NextjsSiteProps(warm, None, None, cd, d, fp)) :
     f \in {ManifestFile(OpenNextOutput(TRUE, StdBehaviors, <<>>)),
            ManifestFile(OpenNextOutput(TRUE,
               Append(StdBehaviors, [pattern |-> "api/*", origin |-> Some("ghost")]), <<>>)),
            MissingFile, MalformedFile},
     warm \in {WarmOmitted, WarmFalse}, cd \in OptBool, d \in CustomDomainValues,
     fp \in FunctionPropsValues}

\* streaming: every setting of the streaming mark on the default origin, the
\* image optimizer and the extra function origin
StreamingManifest(d, i, a) ==
  [OpenNextOutput(FALSE, StdBehaviors, RestOrigins) EXCEPT
     !.origins.default.streaming = d,
     !.origins.imageOptimizer.streaming = i,
     !.origins.rest[1].origin.streaming = a]
StreamingInputs ==
  {Input(ManifestFile(StreamingManifest(d, i, a)),
         NextjsSiteProps(WarmOmitted, None, None, None, None, None)) :
     d \in OptBool, i \in OptBool, a \in OptBool}

\* sizing: every choice of giving or omitting the memory size, the timeout
\* (in seconds), the runtime and the architecture in defaultFunctionProps,
\* over a manifest with extra origins
SizedFunctionProps(memorySize, timeout, runtime, architecture) ==
  [FunctionProps(None) EXCEPT !.memorySize = memorySize, !.timeout = timeout,
                              !.runtime = runtime, !.architecture = architecture]
SizingInputs ==
  {Input(ManifestFile(OpenNextOutput(FALSE, StdBehaviors, RestOrigins)),
         NextjsSiteProps(WarmOmitted, None, None, None, None,
                         Some(SizedFunctionProps(ms, t, r, a)))) :
     ms \in {None, Some(2048)}, t \in {None, Some(30)},
     r \in {None, Some("nodejs22.x")}, a \in {None, Some("x86_64")}}

Inputs ==
  WarmingInputs \cup RoutingInputs \cup DomainInputs \cup StreamingInputs
    \cup SizingInputs

(***************************************************************************)
(* State.                                                                  *)
(***************************************************************************)
VARIABLES
  file,              \* open-next.output.json on disk
  props,             \* this.props
  pc,                \* position in the constructor
  error,             \* the Error thrown, "" while none
  openNextOutput,    \* this.openNextOutput
  customDomainName,  \* this._customDomainName
  behaviors,         \* this.behaviors
  children,          \* ids of the constructs declared in scope, in order
  constructs,        \* id -> what was declared under that id
  grants,            \* permissions granted: [grantee, on, action]
  warnings,          \* Annotations.of(this).addWarning
  certificate,       \* the constructor's const certificate
  origins,           \* this.origins
  defaultServerFunction,  \* this._defaultServerFunction
  defaultFunctionUrl,     \* this.defaultFunctionUrl
  serverCachePolicy, \* this.serverCachePolicy
  staticCachePolicy, \* this.staticCachePolicy
  distribution,      \* this.distribution
  warmerFunction,    \* this.warmerFunction
  now,               \* the clock Date.now() reads
  deployed,          \* the site the provisioning engine deployed last
  events,            \* the custom resource requests of the last deployment
  handled,           \* the requests answered: resource -> the handler's run
  request            \* the viewer request the edge function handled last

site == <<openNextOutput, customDomainName, behaviors, children, constructs, grants,
          warnings, certificate, origins, defaultServerFunction, defaultFunctionUrl,
          serverCachePolicy, staticCachePolicy, distribution, warmerFunction>>
engine == <<now, deployed, events, handled, request>>
vars == <<file, props, pc, error, site, engine>>


(***************************************************************************)
(* Declaring constructs.  `new X(this, id, ...)` adds a child to the scope *)
(* and throws when the scope already has a child of that id.  A scope      *)
(* value is the pair of children and constructs, with the id that          *)
(* collided, "" while none did.                                            *)
(***************************************************************************)
Scope(ch, cs) == [children |-> ch, constructs |-> cs, duplicate |-> ""]
ThisScope == Scope(children, constructs)

\* faulty variant: the child is put before the children declared so far
AddChildInFront(sc, id, c) ==
  IF sc.duplicate # "" THEN sc
  ELSE IF id \in SeqToSet(sc.children) THEN [sc EXCEPT !.duplicate = id]
  ELSE [sc EXCEPT !.children = <<id>> \o @,
                  !.constructs = Spread(@, [k \in {id} |-> c])]

AddChild(sc, id, c) ==
  IF sc.duplicate # "" THEN sc
  ELSE IF id \in SeqToSet(sc.children) THEN [sc EXCEPT !.duplicate = id]
  ELSE [sc EXCEPT !.children = Append(@, id),
                  !.constructs = Spread(@, [k \in {id} |-> c])]

Declared(sc, id) == id \in SeqToSet(sc.children)
Ok(sc) == sc.duplicate = ""
DuplicateError(id) == "There is already a Construct with name '" \o id \o "'"

\* the ids of the constructs of a type
OfType(cs, t) == {id \in DOMAIN cs : cs[id].type = t}

Grant(grantee, on, action) == [grantee |-> grantee, on |-> on, action |-> action]

(***************************************************************************)
(* Construction starts with nothing declared and no field assigned.        *)
(***************************************************************************)
Fresh ==
  /\ pc = "load"
  /\ error = ""
  /\ openNextOutput = None
  /\ customDomainName = None
  /\ behaviors = None
  /\ children = <<>>
  /\ constructs = <<>>
  /\ grants = {}
  /\ warnings = <<>>
  /\ certificate = None
  /\ origins = None
  /\ defaultServerFunction = None
  /\ defaultFunctionUrl = None
  /\ serverCachePolicy = None
  /\ staticCachePolicy = None
  /\ distribution = None
  /\ warmerFunction = None

InitOver(S) ==
  /\ \E i \in S : file = i.file /\ props = i.props
  /\ Fresh
  /\ now = 1
  /\ deployed = None
  /\ events = {}
  /\ handled = <<>>
  /\ request = None

Init == InitOver(Inputs)

\* a throw: the constructor ends, leaving what was declared so far
Throw(msg) == pc' = "failed" /\ error' = msg

(***************************************************************************)
(* constructor, lines 718-727: read and parse the manifest, keep the       *)
(* domain name and the behaviours.                                         *)
(***************************************************************************)
LoadManifest ==
  /\ pc = "load"
  /\ IF file.status # "ok"
     THEN /\ Throw(file.status)
          /\ UNCHANGED site
     ELSE /\ openNextOutput' = file.content
          /\ customDomainName' =
               IF props.customDomain = None THEN None
               ELSE Some(props.customDomain[1].domainName)
          /\ behaviors' = IF "behaviors" \in DOMAIN file.content[1]
                          THEN Some(file.content[1].behaviors)
                          ELSE None
          /\ pc' = "validate"
          /\ UNCHANGED <<error, children, constructs, grants, warnings, certificate,
                         origins, defaultServerFunction, defaultFunctionUrl,
                         serverCachePolicy, staticCachePolicy, distribution,
                         warmerFunction>>
  /\ UNCHANGED <<file, props, engine>>

(***************************************************************************)
(* constructor, lines 729-748: the two checks of customDomain.             *)
(***************************************************************************)
HeadlessDomainError == "customDomain cannot be used when createDistribution is false"
DomainPropsError == "customDomain requires either a certificate or a hostedZone"

\* faulty variant: the check of certificate and hostedZone is missing
ValidationErrorHeadlessOnly(p) ==
  IF p.createDistribution = Some(FALSE) /\ p.customDomain # None
  THEN HeadlessDomainError
  ELSE ""

\* faulty variant: the two checks in the other order
ValidationErrorDomainFirst(p) ==
  IF /\ p.customDomain # None
     /\ ~p.customDomain[1].certificate
     /\ ~p.customDomain[1].hostedZone
  THEN DomainPropsError
  ELSE IF p.createDistribution = Some(FALSE) /\ p.customDomain # None
  THEN HeadlessDomainError
  ELSE ""

ValidationError(p) ==
  IF p.createDistribution = Some(FALSE) /\ p.customDomain # None
  THEN HeadlessDomainError
  ELSE IF /\ p.customDomain # None
          /\ ~p.customDomain[1].certificate
          /\ ~p.customDomain[1].hostedZone
  THEN DomainPropsError
  ELSE ""

ValidateProps ==
  /\ pc = "validate"
  /\ IF ValidationError(props) # ""
     THEN Throw(ValidationError(props))
     ELSE pc' = "bucket" /\ UNCHANGED error
  /\ UNCHANGED <<file, props, site, engine>>

\* the end of a statement group that declared constructs: on to `next`,
\* or the throw of a duplicate id
Declare(sc, next) ==
  /\ children' = sc.children
  /\ constructs' = sc.constructs
  /\ IF sc.duplicate # ""
     THEN Throw(DuplicateError(sc.duplicate))
     ELSE pc' = next /\ UNCHANGED error

(***************************************************************************)
(* constructor, lines 750-756: the bucket.                                 *)
(***************************************************************************)
BucketProps ==
  [type |-> "Bucket", publicReadAccess |-> FALSE, blockPublicAccess |-> "BLOCK_ALL",
   autoDeleteObjects |-> TRUE, removalPolicy |-> "DESTROY", enforceSSL |-> TRUE]

CreateBucket ==
  /\ pc = "bucket"
  /\ Declare(AddChild(ThisScope, "S3Bucket", BucketProps), "table")
  /\ UNCHANGED <<file, props, openNextOutput, customDomainName, behaviors, grants,
                 warnings, certificate, origins, defaultServerFunction,
                 defaultFunctionUrl, serverCachePolicy, staticCachePolicy,
                 distribution, warmerFunction, engine>>

(***************************************************************************)
(* Lambda functions.  A function construct records what `new CdkFunction`  *)
(* was given; url is the function URL added to it, None while it has none. *)
(***************************************************************************)
NODEJS_24_X == "nodejs24.x"
ARM_64 == "arm64"

Function(description, handler, code, timeout, memorySize, environment) ==
  [type |-> "Function", description |-> description, handler |-> handler,
   code |-> code, runtime |-> NODEJS_24_X, architecture |-> ARM_64,
   timeout |-> timeout, memorySize |-> memorySize, environment |-> environment,
   url |-> None]

\* path.join(this.openNextPath, "..", bundle) and path.join(this.openNextPath, dir)
AssetBesideOpenNext(bundle) == <<"openNextPath", "..", bundle>>
AssetInOpenNext(dir) == <<"openNextPath", dir>>

\* tokens: attributes of a construct that resolve at deployment
Attr(id, name) == id \o "." \o name
Region == "AWS::Region"

(***************************************************************************)
(* createRevalidationTable, lines 808-863: the table, the function that    *)
(* seeds it, and the custom resource that invokes the function, keyed by   *)
(* the time of construction.                                               *)
(***************************************************************************)
TableProps ==
  [type |-> "Table", partitionKey |-> "tag", sortKey |-> "path",
   indexName |-> "revalidate", indexPartitionKey |-> "path",
   indexSortKey |-> "revalidatedAt", removalPolicy |-> "DESTROY"]

InsertFunction ==
  Function("Next.js revalidation data insert", "index.handler",
           AssetInOpenNext("dynamodb-provider"), Some(900), Some(128),
           [CACHE_DYNAMO_TABLE |-> Attr("RevalidationTable", "tableName")])

CustomResource(provider, properties) ==
  [type |-> "CustomResource", serviceToken |-> Attr(provider, "serviceToken"),
   properties |-> properties]

\* faulty variant: the custom resource is keyed by a constant
RevalidationTableScopeFixedVersion(sc, time) ==
  LET t1 == AddChild(sc, "RevalidationTable", TableProps)
      t2 == AddChild(t1, "RevalidationInsertFunction", InsertFunction)
      t3 == AddChild(t2, "RevalidationProviderLogGroup",
                     [type |-> "LogGroup", retention |-> "ONE_DAY",
                      removalPolicy |-> "DESTROY"])
      t4 == AddChild(t3, "RevalidationProvider",
                     [type |-> "Provider", onEventHandler |-> "RevalidationInsertFunction"])
  IN AddChild(t4, "RevalidationResource",
              CustomResource("RevalidationProvider", [version |-> "1"]))

RevalidationTableScope(sc, time) ==
  LET t1 == AddChild(sc, "RevalidationTable", TableProps)
      t2 == AddChild(t1, "RevalidationInsertFunction", InsertFunction)
      t3 == AddChild(t2, "RevalidationProviderLogGroup",
                     [type |-> "LogGroup", retention |-> "ONE_DAY",
                      removalPolicy |-> "DESTROY"])
      t4 == AddChild(t3, "RevalidationProvider",
                     [type |-> "Provider", onEventHandler |-> "RevalidationInsertFunction"])
  IN AddChild(t4, "RevalidationResource",
              CustomResource("RevalidationProvider", [version |-> ToString(time)]))

CreateRevalidationTable ==
  /\ pc = "table"
  /\ LET sc == RevalidationTableScope(ThisScope, now)
     IN /\ Declare(sc, "queue")
        /\ grants' = IF Declared(sc, "RevalidationInsertFunction")
                     THEN grants \cup {Grant("RevalidationInsertFunction",
                                             "RevalidationTable", "ReadWriteData")}
                     ELSE grants
  /\ UNCHANGED <<file, props, openNextOutput, customDomainName, behaviors,
                 warnings, certificate, origins, defaultServerFunction,
                 defaultFunctionUrl, serverCachePolicy, staticCachePolicy,
                 distribution, warmerFunction, engine>>

(***************************************************************************)
(* createRevalidationQueue, lines 906-931: the FIFO queue and its          *)
(* consumer.                                                               *)
(***************************************************************************)
BatchSize == 5

RevalidationQueueScope(sc) ==
  LET q == AddChild(sc, "RevalidationQueue",
                    [type |-> "Queue", fifo |-> TRUE, receiveMessageWaitTime |-> 20])
  IN AddChild(q, "RevalidationFunction",
              Function("Next.js revalidator", "index.handler",
                       AssetBesideOpenNext("revalidation-function"), Some(30), None, <<>>)
              @@ [eventSource |-> "RevalidationQueue", batchSize |-> BatchSize])

CreateRevalidationQueue ==
  /\ pc = "queue"
  /\ Declare(RevalidationQueueScope(ThisScope), "certificate")
  /\ UNCHANGED <<file, props, openNextOutput, customDomainName, behaviors, grants,
                 warnings, certificate, origins, defaultServerFunction,
                 defaultFunctionUrl, serverCachePolicy, staticCachePolicy,
                 distribution, warmerFunction, engine>>

(***************************************************************************)
(* constructor, lines 760-768, and createCertificate, lines 798-806: the   *)
(* certificate given, or else one created against the hosted zone.         *)
(***************************************************************************)
ProvidedCertificate == "props.customDomain.certificate"

\* faulty variant: a certificate is created whenever a hosted zone is given
CreatesCertificateWheneverZone(p) ==
  /\ p.customDomain # None
  /\ p.customDomain[1].hostedZone

CreatesCertificate(p) ==
  /\ p.customDomain # None
  /\ ~p.customDomain[1].certificate
  /\ p.customDomain[1].hostedZone

CertificateScope(sc, p) ==
  IF CreatesCertificate(p)
  THEN AddChild(sc, "Certificate",
                [type |-> "DnsValidatedCertificate",
                 domainName |-> p.customDomain[1].domainName,
                 hostedZone |-> "props.customDomain.hostedZone",
                 region |-> "us-east-1"])
  ELSE sc

ResolveCertificate ==
  /\ pc = "certificate"
  /\ LET sc == CertificateScope(ThisScope, props)
     IN /\ Declare(sc, "origins")
        /\ certificate' =
             IF ~Ok(sc) THEN certificate
             ELSE IF props.customDomain # None /\ props.customDomain[1].certificate
             THEN Some(ProvidedCertificate)
             ELSE IF CreatesCertificate(props) THEN Some("Certificate")
             ELSE None
  /\ UNCHANGED <<file, props, openNextOutput, customDomainName, behaviors, grants,
                 warnings, origins, defaultServerFunction, defaultFunctionUrl,
                 serverCachePolicy, staticCachePolicy, distribution,
                 warmerFunction, engine>>

(***************************************************************************)
(* The environments, lines 1055-1071, and the grants, lines 1073-1077.     *)
(***************************************************************************)
getServerEnvironment ==
  [CACHE_BUCKET_NAME |-> Attr("S3Bucket", "bucketName"),
   CACHE_BUCKET_KEY_PREFIX |-> "_cache",
   CACHE_BUCKET_REGION |-> Region,
   REVALIDATION_QUEUE_URL |-> Attr("RevalidationQueue", "queueUrl"),
   REVALIDATION_QUEUE_REGION |-> Region,
   CACHE_DYNAMO_TABLE |-> Attr("RevalidationTable", "tableName")]

getImageOptimizerEnvironment ==
  [BUCKET_NAME |-> Attr("S3Bucket", "bucketName"),
   BUCKET_KEY_PREFIX |-> "_assets"]

grantPermissions(grantee) ==
  {Grant(grantee, "S3Bucket", "ReadWrite"),
   Grant(grantee, "RevalidationTable", "ReadWriteData"),
   Grant(grantee, "RevalidationQueue", "SendMessages")}

(***************************************************************************)
(* createOrigins and the two origin builders thread a builder value: the   *)
(* scope, the grants, the references to the default function and the       *)
(* origins built so far.                                                   *)
(***************************************************************************)
Builder(sc, g, dsf, dfu, o) ==
  [scope |-> sc, grants |-> g, defaultServerFunction |-> dsf,
   defaultFunctionUrl |-> dfu, origins |-> o]

Origin(kind, target, originId, originPath, oac) ==
  [kind |-> kind, target |-> target, originId |-> originId,
   originPath |-> originPath, originAccessControl |-> oac]

FunctionUrl(authType, invokeMode) == [authType |-> authType, invokeMode |-> invokeMode]

\* origin.streaming ? InvokeMode.RESPONSE_STREAM : InvokeMode.BUFFERED
InvokeModeOf(origin) ==
  IF origin.streaming = Some(TRUE) THEN "RESPONSE_STREAM" ELSE "BUFFERED"

NoFunctionProps == FunctionProps(None)

\* faulty variant: the function origins share one environment of all keys
FunctionEnvironmentOfAllKeys(fnProps) ==
  Spread(Spread(OrElse(OrElse(fnProps, NoFunctionProps).environment, <<>>),
                getServerEnvironment),
         getImageOptimizerEnvironment)

\* faulty variant: the spreads in the other order, so that the caller's value wins
FunctionEnvironmentCallerWins(fnProps) ==
  Spread(getServerEnvironment, OrElse(OrElse(fnProps, NoFunctionProps).environment, <<>>))

\* the environment of createFunctionOrigin: { ...fnProps?.environment, ...environment }
FunctionEnvironment(fnProps) ==
  Spread(OrElse(OrElse(fnProps, NoFunctionProps).environment, <<>>), getServerEnvironment)

\* createFunctionOrigin, lines 1079-1116
createFunctionOrigin(b, key, origin, originId, fnProps) ==
  LET id == key \o "Function"
      fp == OrElse(fnProps, NoFunctionProps)
      fn == [type |-> "Function", description |-> "", handler |-> origin.handler,
             code |-> AssetBesideOpenNext(origin.bundle),
             runtime |-> OrElse(fp.runtime, NODEJS_24_X),
             architecture |-> OrElse(fp.architecture, ARM_64),
             timeout |-> Some(OrElse(fp.timeout, 10)),
             memorySize |-> Some(OrElse(fp.memorySize, 1024)),
             environment |-> FunctionEnvironment(fnProps),
             url |-> Some(FunctionUrl("NONE", Some(InvokeModeOf(origin))))]
      sc == AddChild(b.scope, id, fn)
  IN IF ~Ok(sc) THEN [b EXCEPT !.scope = sc]
     ELSE [scope |-> sc,
           grants |-> b.grants \cup grantPermissions(id),
           defaultServerFunction |->
             IF key = "default" THEN Some(id) ELSE b.defaultServerFunction,
           defaultFunctionUrl |->
             IF key = "default" THEN Some(Attr(id, "url")) ELSE b.defaultFunctionUrl,
           origins |-> Spread(b.origins,
             [k \in {key} |-> Origin("HttpOrigin", Attr(id, "url"), originId, None, FALSE)])]

\* faulty variant: the image optimizer is built like any other function
\* origin, with an open function URL and a plain HTTP origin
createImageOptimizerOriginOpen(b, origin) ==
  LET id == "imageOptimizerFunction"
      fn == [type |-> "Function", description |-> "", handler |-> origin.handler,
             code |-> AssetBesideOpenNext(origin.bundle),
             runtime |-> NODEJS_24_X, architecture |-> ARM_64,
             timeout |-> None, memorySize |-> Some(1024),
             environment |-> getImageOptimizerEnvironment,
             url |-> Some(FunctionUrl("NONE", None))]
      sc == AddChild(b.scope, id, fn)
  IN IF ~Ok(sc) THEN [b EXCEPT !.scope = sc]
     ELSE [b EXCEPT !.scope = sc,
                    !.grants = @ \cup grantPermissions(id),
                    !.origins = Spread(@,
                      [k \in {"imageOptimizer"} |->
                         Origin("HttpOrigin", Attr(id, "url"),
                                Some("ImageOptimizer"), None, FALSE)])]

\* createImageOptimizerOrigin, lines 1123-1149
createImageOptimizerOrigin(b, origin) ==
  LET id == "imageOptimizerFunction"
      fn == [type |-> "Function", description |-> "", handler |-> origin.handler,
             code |-> AssetBesideOpenNext(origin.bundle),
             runtime |-> NODEJS_24_X, architecture |-> ARM_64,
             timeout |-> None, memorySize |-> Some(1024),
             environment |-> getImageOptimizerEnvironment,
             url |-> Some(FunctionUrl("AWS_IAM", None))]
      sc == AddChild(b.scope, id, fn)
  IN IF ~Ok(sc) THEN [b EXCEPT !.scope = sc]
     ELSE [b EXCEPT !.scope = sc,
                    !.grants = @ \cup grantPermissions(id),
                    !.origins = Spread(@,
                      [k \in {"imageOptimizer"} |->
                         Origin("FunctionUrlOrigin", Attr(id, "url"),
                                Some("ImageOptimizer"), None, TRUE)])]

\* key.charAt(0).toUpperCase() + key.slice(1), on the keys of the model
Capitalize(key) ==
  CASE key = "api" -> "Api"
    [] key = "docs" -> "Docs"
    [] OTHER -> key

\* faulty variant: the extra origins of the manifest are left out
RestOriginsDropped(b, rest) == b

\* the reduce over Object.entries(restOrigins), lines 892-901
RECURSIVE RestOriginsOf(_, _)
RestOriginsOf(b, rest) ==
  IF rest = <<>> \/ ~Ok(b.scope) THEN b
  ELSE LET e == Head(rest)
       IN RestOriginsOf(
            IF e.origin.type = "function"
            THEN createFunctionOrigin(b, e.key, e.origin, Some(Capitalize(e.key)), None)
            ELSE b,
            Tail(rest))

\* the loop over s3Origin.copy, lines 872-879
RECURSIVE BucketDeployments(_, _)
BucketDeployments(sc, copy) ==
  IF copy = <<>> THEN sc
  ELSE BucketDeployments(
         AddChild(sc, "OpenNextBucketDeployment" \o Head(copy).from,
                  [type |-> "BucketDeployment",
                   source |-> AssetBesideOpenNext(Head(copy).from),
                   destinationBucket |-> "S3Bucket",
                   destinationKeyPrefix |-> Head(copy).to,
                   prune |-> FALSE]),
         Tail(copy))

\* reading a property of undefined, or destructuring undefined, throws
CannotDestructure(name) ==
  "TypeError: Cannot destructure property '" \o name \o "' of undefined"
CannotRead(name) ==
  "TypeError: Cannot read properties of undefined (reading '" \o name \o "')"

\* the TypeError createOrigins runs into on a manifest that lacks origins
\* or one of the three origins it dereferences, "" on a manifest that has
\* them: the destructuring of line 871, s3Origin.copy of line 872,
\* origin.handler of line 1094, and origin.handler of line 1131
OriginsTypeError(m) ==
  IF "origins" \notin DOMAIN m THEN CannotDestructure("s3")
  ELSE IF "s3" \notin DOMAIN m.origins THEN CannotRead("copy")
  ELSE IF "default" \notin DOMAIN m.origins THEN CannotRead("handler")
  ELSE IF "imageOptimizer" \notin DOMAIN m.origins THEN CannotRead("handler")
  ELSE ""

\* createOrigins, lines 865-904: the builder at its end, or at its throw
createOrigins(b, m, defaultFunctionProps) ==
  IF "origins" \notin DOMAIN m \/ "s3" \notin DOMAIN m.origins THEN b
  ELSE
  LET b1 == [b EXCEPT !.scope = BucketDeployments(@, m.origins.s3.copy)]
      b2 == IF ~Ok(b1.scope) THEN b1
            ELSE [b1 EXCEPT !.origins =
                    [s3 |-> Origin("S3BucketOrigin", "S3Bucket", Some("S3Bucket"),
                                   Some(m.origins.s3.originPath), TRUE)]]
      b3 == IF ~Ok(b2.scope) \/ "default" \notin DOMAIN m.origins THEN b2
            ELSE createFunctionOrigin(b2, "default", m.origins.default,
                                      Some("NextJsServer"), defaultFunctionProps)
      b4 == IF ~Ok(b3.scope) \/ "default" \notin DOMAIN m.origins
               \/ "imageOptimizer" \notin DOMAIN m.origins
            THEN b3
            ELSE createImageOptimizerOrigin(b3, m.origins.imageOptimizer)
  IN IF ~Ok(b4.scope) \/ OriginsTypeError(m) # "" THEN b4
     ELSE RestOriginsOf(b4, m.origins.rest)

CreateOrigins ==
  /\ pc = "origins"
  /\ LET b == createOrigins(
                Builder(ThisScope, grants, defaultServerFunction, defaultFunctionUrl, <<>>),
                openNextOutput[1], props.defaultFunctionProps)
         typeError == OriginsTypeError(openNextOutput[1])
     IN /\ IF Ok(b.scope) /\ typeError # ""
           THEN /\ Throw(typeError)
                /\ children' = b.scope.children
                /\ constructs' = b.scope.constructs
           ELSE Declare(b.scope, "policies")
        /\ grants' = b.grants
        /\ defaultServerFunction' = b.defaultServerFunction
        /\ defaultFunctionUrl' = b.defaultFunctionUrl
        /\ origins' = IF Ok(b.scope) /\ typeError = "" THEN Some(b.origins) ELSE origins
  /\ UNCHANGED <<file, props, openNextOutput, customDomainName, behaviors,
                 warnings, certificate, serverCachePolicy, staticCachePolicy,
                 distribution, warmerFunction, engine>>

(***************************************************************************)
(* createServerCachePolicy and createStaticCachePolicy, lines 1248-1269.   *)
(***************************************************************************)
ServerCachePolicyProps ==
  [type |-> "CachePolicy", queryStringBehavior |-> "all",
   headerBehavior |-> {"accept", "accept-encoding", "rsc", "next-router-prefetch",
                       "next-router-state-tree", "next-url", "x-prerender-revalidate"},
   cookieBehavior |-> "none", defaultTtlDays |-> 0, maxTtlDays |-> 365, minTtlDays |-> 0]

CACHING_OPTIMIZED == "CachePolicy.CACHING_OPTIMIZED"

CreateCachePolicies ==
  /\ pc = "policies"
  /\ LET sc == AddChild(ThisScope, "OpenNextServerCachePolicy", ServerCachePolicyProps)
     IN /\ Declare(sc, "distribution")
        /\ serverCachePolicy' =
             IF Ok(sc) THEN Some("OpenNextServerCachePolicy") ELSE serverCachePolicy
        /\ staticCachePolicy' = IF Ok(sc) THEN Some(CACHING_OPTIMIZED) ELSE staticCachePolicy
  /\ UNCHANGED <<file, props, openNextOutput, customDomainName, behaviors, grants,
                 warnings, certificate, origins, defaultServerFunction,
                 defaultFunctionUrl, distribution, warmerFunction, engine>>

(***************************************************************************)
(* The viewer-request function, lines 1151-1180.  Its code is a list of    *)
(* statements over request.headers: "set" assigns the target from the      *)
(* source header, "setIfPresent" does so only if the source is truthy.     *)
(***************************************************************************)
GeoSignals == <<"city", "country", "region", "latitude", "longitude">>

\* faulty variant: the geolocation headers are copied whether present or not
getGeoHeadersInjectionUnguarded ==
  [i \in 1..Len(GeoSignals) |->
     [op |-> "set", target |-> "x-open-next-" \o GeoSignals[i],
      source |-> "cloudfront-viewer-" \o GeoSignals[i]]]

getGeoHeadersInjection ==
  [i \in 1..Len(GeoSignals) |->
     [op |-> "setIfPresent", target |-> "x-open-next-" \o GeoSignals[i],
      source |-> "cloudfront-viewer-" \o GeoSignals[i]]]

buildCloudfrontFunctionCode ==
  <<[op |-> "set", target |-> "x-forwarded-host", source |-> "host"]>>
    \o getGeoHeadersInjection

cloudfrontFunctionCode == buildCloudfrontFunctionCode

(***************************************************************************)
(* createDistribution, lines 1182-1246.                                    *)
(***************************************************************************)
FnAssociations == <<[function |-> "CloudFrontFunction", eventType |-> "VIEWER_REQUEST"]>>
ALL_VIEWER_EXCEPT_HOST_HEADER == "OriginRequestPolicy.ALL_VIEWER_EXCEPT_HOST_HEADER"

BehaviorOptions(origin, allowedMethods, cachePolicy, originRequestPolicy) ==
  [origin |-> origin, viewerProtocolPolicy |-> "REDIRECT_TO_HTTPS",
   allowedMethods |-> allowedMethods, cachedMethods |-> "CACHE_GET_HEAD_OPTIONS",
   cachePolicy |-> cachePolicy, originRequestPolicy |-> originRequestPolicy,
   functionAssociations |-> FnAssociations]

\* faulty variant: an unknown name falls back to the default origin
LookupOriginOrDefault(o, behavior) ==
  LET name == OrElse(behavior.origin, "default")
  IN IF name \in DOMAIN o THEN Some(o[name]) ELSE Some(o["default"])

\* behavior.origin ? origins[behavior.origin] : origins.default
LookupOrigin(o, behavior) ==
  LET name == OrElse(behavior.origin, "default")
  IN IF name \in DOMAIN o THEN Some(o[name]) ELSE None

OriginNotFound(behavior) ==
  "Origin '" \o OrElse(behavior.origin, "default") \o "' not found in origins map"

\* faulty variant: every additional behaviour gets the server cache policy
RECURSIVE ReduceBehaviorsServerPolicyOnly(_, _, _, _, _)
ReduceBehaviorsServerPolicyOnly(acc, bs, o, serverPolicy, staticPolicy) ==
  IF bs = <<>> THEN [error |-> "", behaviors |-> acc]
  ELSE LET behavior == Head(bs)
           origin == LookupOrigin(o, behavior)
       IN IF origin = None
          THEN [error |-> OriginNotFound(behavior), behaviors |-> acc]
          ELSE ReduceBehaviorsServerPolicyOnly(
                 Spread(acc, [k \in {behavior.pattern} |->
                   BehaviorOptions(origin[1], "ALLOW_GET_HEAD_OPTIONS", serverPolicy,
                                   Some(ALL_VIEWER_EXCEPT_HOST_HEADER))]),
                 Tail(bs), o, serverPolicy, staticPolicy)

\* the reduce of lines 1214-1243 over the behaviours that passed the filter:
\* the additional behaviours by pattern, or the error thrown
RECURSIVE ReduceBehaviors(_, _, _, _, _)
ReduceBehaviors(acc, bs, o, serverPolicy, staticPolicy) ==
  IF bs = <<>> THEN [error |-> "", behaviors |-> acc]
  ELSE LET behavior == Head(bs)
           origin == LookupOrigin(o, behavior)
       IN IF origin = None
          THEN [error |-> OriginNotFound(behavior), behaviors |-> acc]
          ELSE ReduceBehaviors(
                 Spread(acc, [k \in {behavior.pattern} |->
                   BehaviorOptions(origin[1], "ALLOW_GET_HEAD_OPTIONS",
                     IF behavior.origin = Some("s3") THEN staticPolicy ELSE serverPolicy,
                     IF behavior.origin = Some("s3") THEN None
                     ELSE Some(ALL_VIEWER_EXCEPT_HOST_HEADER))]),
                 Tail(bs), o, serverPolicy, staticPolicy)

\* faulty variant: the filter on the pattern "*" is missing
AdditionalBehaviorsUnfiltered(bs, o, serverPolicy, staticPolicy) ==
  ReduceBehaviors(<<>>, bs, o, serverPolicy, staticPolicy)

AdditionalBehaviors(bs, o, serverPolicy, staticPolicy) ==
  ReduceBehaviors(<<>>, SelectSeq(bs, LAMBDA b : b.pattern # "*"), o,
                  serverPolicy, staticPolicy)

\* faulty variant: the default behaviour is bound to the bucket
DistributionPropsDefaultToBucket(p, cert, o, additional, serverPolicy) ==
  [type |-> "Distribution",
   domainNames |-> IF p.customDomain = None THEN None
                   ELSE Some(<<p.customDomain[1].domainName>>),
   certificate |-> cert,
   defaultBehavior |->
     BehaviorOptions(o["s3"], "ALLOW_ALL", serverPolicy,
                     Some(ALL_VIEWER_EXCEPT_HOST_HEADER)),
   additionalBehaviors |-> additional]

DistributionProps(p, cert, o, additional, serverPolicy) ==
  [type |-> "Distribution",
   domainNames |-> IF p.customDomain = None THEN None
                   ELSE Some(<<p.customDomain[1].domainName>>),
   certificate |-> cert,
   defaultBehavior |->
     BehaviorOptions(o["default"], "ALLOW_ALL", serverPolicy,
                     Some(ALL_VIEWER_EXCEPT_HOST_HEADER)),
   additionalBehaviors |-> additional]

\* faulty variant: the behaviours are resolved before the edge function is declared
createDistributionResolvingFirst(sc, m, o, p, cert, serverPolicy, staticPolicy) ==
  LET add == AdditionalBehaviors(m.behaviors, o, serverPolicy, staticPolicy)
      s1 == AddChild(sc, "CloudFrontFunction",
                     [type |-> "CloudfrontFunction", code |-> buildCloudfrontFunctionCode])
  IN IF add.error # "" THEN [scope |-> sc, error |-> add.error]
     ELSE IF ~Ok(s1) THEN [scope |-> s1, error |-> DuplicateError(s1.duplicate)]
     ELSE LET s2 == AddChild(s1, "Distribution",
                             DistributionProps(p, cert, o, add.behaviors, serverPolicy))
          IN [scope |-> s2,
              error |-> IF Ok(s2) THEN "" ELSE DuplicateError(s2.duplicate)]

\* createDistribution: the scope after it, and the error it threw, "" if none
createDistribution(sc, m, o, p, cert, serverPolicy, staticPolicy) ==
  LET s1 == AddChild(sc, "CloudFrontFunction",
                     [type |-> "CloudfrontFunction", code |-> buildCloudfrontFunctionCode])
      add == AdditionalBehaviors(m.behaviors, o, serverPolicy, staticPolicy)
  IN IF ~Ok(s1) THEN [scope |-> s1, error |-> DuplicateError(s1.duplicate)]
     ELSE IF "default" \notin DOMAIN o
     THEN [scope |-> s1, error |-> "Default origin must be defined"]
     ELSE IF "behaviors" \notin DOMAIN m
     THEN [scope |-> s1, error |-> CannotRead("filter")]
     ELSE IF add.error # "" THEN [scope |-> s1, error |-> add.error]
     ELSE LET s2 == AddChild(s1, "Distribution",
                             DistributionProps(p, cert, o, add.behaviors, serverPolicy))
          IN [scope |-> s2,
              error |-> IF Ok(s2) THEN "" ELSE DuplicateError(s2.duplicate)]

AliasRecord(type, p) ==
  [type |-> type, zone |-> "props.customDomain.hostedZone",
   recordName |-> p.customDomain[1].domainName, target |-> "Distribution"]

\* lines 778-790
AliasRecords(sc, p) ==
  IF p.customDomain # None /\ p.customDomain[1].hostedZone
  THEN AddChild(AddChild(sc, "AliasRecord", AliasRecord("ARecord", p)),
                "AliasRecordAAAA", AliasRecord("AaaaRecord", p))
  ELSE sc

\* faulty variant: the switch is ignored
CreatesDistributionAlways(p) == TRUE

\* props.createDistribution !== false
CreatesDistribution(p) == p.createDistribution # Some(FALSE)

\* constructor, lines 774-793
CreateDistribution ==
  /\ pc = "distribution"
  /\ IF CreatesDistribution(props)
     THEN LET d == createDistribution(ThisScope, openNextOutput[1], origins[1], props,
                                      certificate, serverCachePolicy[1],
                                      staticCachePolicy[1])
              sc == IF d.error = "" THEN AliasRecords(d.scope, props) ELSE d.scope
          IN IF d.error # ""
             THEN /\ Throw(d.error)
                  /\ children' = d.scope.children
                  /\ constructs' = d.scope.constructs
                  /\ UNCHANGED distribution
             ELSE /\ Declare(sc, "warmer")
                  /\ distribution' = Some("Distribution")
     ELSE /\ distribution' = None
          /\ pc' = "warmer"
          /\ UNCHANGED <<error, children, constructs>>
  /\ UNCHANGED <<file, props, openNextOutput, customDomainName, behaviors, grants,
                 warnings, certificate, origins, defaultServerFunction,
                 defaultFunctionUrl, serverCachePolicy, staticCachePolicy,
                 warmerFunction, engine>>

(***************************************************************************)
(* createWarmer, lines 933-1053.                                           *)
(***************************************************************************)
\* faulty variant: any number given as warm counts as 1
warmConcurrencyIgnoringNumber(p) ==
  IF p.warm.kind = "false" THEN None ELSE Some(1)

\* this.props.warm === false ? undefined : (this.props.warm ?? 1)
warmConcurrency(p) ==
  IF p.warm.kind = "false" THEN None
  ELSE IF p.warm.kind = "omitted" THEN Some(1)
  ELSE Some(p.warm.n)

\* faulty variant: only warm = false disables warming
WarmingDisabledOnlyFalse(p) == warmConcurrency(p) = None

\* !warmConcurrency || warmConcurrency <= 0
WarmingDisabled(p) ==
  \/ warmConcurrency(p) = None
  \/ warmConcurrency(p)[1] = 0
  \/ warmConcurrency(p)[1] <= 0

\* faulty variant: the warning is not recorded
addWarningDropped(w, msg) == w

\* Annotations.of(this).addWarning(msg)
addWarning(w, msg) == Append(w, msg)

NoWarmerWarning ==
  "Warming is enabled but OpenNext did not provide a warmer bundle. Skipping warmer creation."

\* this.props.warmerInterval ?? Duration.minutes(5), in seconds
DefaultIntervalMinutes == 5
warmerIntervalOf(p) == OrElse(p.warmerInterval, DefaultIntervalMinutes * 60)

\* Duration.toMinutes(): the whole minutes of a duration, None where it throws
\* because the duration is no whole number of minutes
toMinutes(seconds) == IF seconds % 60 = 0 THEN Some(seconds \div 60) ELSE None
NotWholeMinutes == "cannot be converted into a whole number of minutes"

\* JSON.stringify(warmParams)
WarmParamsJson(concurrency, functionName) ==
  "[{\"concurrency\":" \o ToString(concurrency) \o ",\"function\":\""
    \o functionName \o "\"}]"

\* faulty variant: the interval is left out of the object hashed
ConfigJsonWithoutInterval(concurrency, minutes, prewarmOnDeploy) ==
  "{\"concurrency\":" \o ToString(concurrency)
    \o (IF prewarmOnDeploy = None THEN ""
        ELSE ",\"prewarmEnabled\":" \o (IF prewarmOnDeploy[1] THEN "true" ELSE "false"))
    \o "}"

\* JSON.stringify of the object hashed at lines 1036-1040; it leaves out a
\* key whose value is undefined
ConfigJson(concurrency, minutes, prewarmOnDeploy) ==
  "{\"concurrency\":" \o ToString(concurrency) \o ",\"interval\":" \o ToString(minutes)
    \o (IF prewarmOnDeploy = None THEN ""
        ELSE ",\"prewarmEnabled\":" \o (IF prewarmOnDeploy[1] THEN "true" ELSE "false"))
    \o "}"

\* createHash("sha256").update(s).digest("hex").substring(0, 16): distinct
\* inputs are taken to have distinct digests
Sha256Hex16(str) == "sha256:" \o str

WarmerFunctionProps(m, concurrency) ==
  Function("Next.js warmer", m.warmer[1].handler, AssetBesideOpenNext(m.warmer[1].bundle),
           Some(60), Some(128),
           [WARM_PARAMS |-> WarmParamsJson(concurrency, Attr("defaultFunction", "functionName"))])

WarmerRule(seconds) ==
  [type |-> "Rule", schedule |-> [rate |-> seconds],
   targets |-> <<[function |-> "WarmerFunction", retryAttempts |-> 0]>>]

PrewarmerFunctionProps ==
  Function("Next.js pre-warmer", "index.handler", <<"inline", "PrewarmerHandler">>,
           Some(120), Some(128), <<>>)

\* faulty variant: the pre-warmer is declared only when asked for
PrewarmerScopeOnlyWhenTrue(sc, p, concurrency, minutes) ==
  IF p.prewarmOnDeploy # Some(TRUE) THEN sc
  ELSE LET s1 == AddChild(sc, "PrewarmerFunction", PrewarmerFunctionProps)
           s2 == AddChild(s1, "PrewarmerProvider",
                          [type |-> "Provider", onEventHandler |-> "PrewarmerFunction"])
       IN AddChild(s2, "PrewarmerResource",
            CustomResource("PrewarmerProvider",
              [FunctionName |-> Attr("WarmerFunction", "functionName"),
               Version |-> Sha256Hex16(ConfigJson(concurrency, minutes, p.prewarmOnDeploy))]))

\* lines 989-1052: the pre-warmer, its provider and the custom resource
PrewarmerScope(sc, p, concurrency, minutes) ==
  IF p.prewarmOnDeploy = Some(FALSE) THEN sc
  ELSE LET s1 == AddChild(sc, "PrewarmerFunction", PrewarmerFunctionProps)
           s2 == AddChild(s1, "PrewarmerProvider",
                          [type |-> "Provider", onEventHandler |-> "PrewarmerFunction"])
       IN AddChild(s2, "PrewarmerResource",
            CustomResource("PrewarmerProvider",
              [FunctionName |-> Attr("WarmerFunction", "functionName"),
               Version |-> Sha256Hex16(ConfigJson(concurrency, minutes, p.prewarmOnDeploy))]))

\* faulty variant: the variable is not added
addEnvironmentDropped(cs, id, key, value) == cs

\* this._defaultServerFunction.addEnvironment(key, value)
addEnvironment(cs, id, key, value) ==
  [cs EXCEPT ![id].environment = Spread(@, [k \in {key} |-> value])]

CreateWarmer ==
  /\ pc = "warmer"
  /\ LET m == openNextOutput[1]
         c == warmConcurrency(props)
     IN IF WarmingDisabled(props)
        THEN /\ pc' = "done"
             /\ UNCHANGED <<error, children, constructs, grants, warnings, warmerFunction>>
        ELSE IF m.warmer = None
        THEN /\ warnings' = addWarning(warnings, NoWarmerWarning)
             /\ pc' = "done"
             /\ UNCHANGED <<error, children, constructs, grants, warmerFunction>>
        ELSE LET s1 == AddChild(ThisScope, "WarmerFunction", WarmerFunctionProps(m, c[1]))
                 minutes == toMinutes(warmerIntervalOf(props))
                 s2 == AddChild(s1, "WarmerRule", WarmerRule(warmerIntervalOf(props)))
                 s3 == PrewarmerScope(s2, props, c[1], minutes[1])
                 \* how far the method came: the scope at its end or at its throw
                 sc == IF ~Ok(s1) \/ minutes = None THEN s1
                       ELSE IF ~Ok(s2) THEN s2
                       ELSE s3
             IN /\ children' = sc.children
                /\ constructs' =
                     IF Ok(s1)
                     THEN addEnvironment(sc.constructs, defaultServerFunction[1],
                                         "WARMER_ENABLED", "true")
                     ELSE sc.constructs
                /\ warmerFunction' = IF Ok(s1) THEN Some("WarmerFunction") ELSE warmerFunction
                /\ grants' = grants
                     \cup (IF Ok(s1)
                           THEN {Grant("WarmerFunction", defaultServerFunction[1], "Invoke")}
                           ELSE {})
                     \cup (IF Ok(sc) /\ minutes # None /\ Declared(sc, "PrewarmerFunction")
                           THEN {Grant("PrewarmerFunction", "WarmerFunction", "Invoke")}
                           ELSE {})
                /\ IF ~Ok(sc) THEN Throw(DuplicateError(sc.duplicate))
                   ELSE IF minutes = None THEN Throw(NotWholeMinutes)
                   ELSE pc' = "done" /\ UNCHANGED error
                /\ UNCHANGED warnings
  /\ UNCHANGED <<file, props, openNextOutput, customDomainName, behaviors,
                 certificate, origins, defaultServerFunction, defaultFunctionUrl,
                 serverCachePolicy, staticCachePolicy, distribution, engine>>

(***************************************************************************)
(* The accessors url and customDomainUrl, lines 687-707: the value         *)
(* returned, or the error thrown.                                          *)
(***************************************************************************)
NoDistributionError == "Distribution not available. Set createDistribution: true"
Returns(v) == [throws |-> "", value |-> v]
Throws(msg) == [throws |-> msg, value |-> ""]

url ==
  IF distribution = None THEN Throws(NoDistributionError)
  ELSE Returns("https://" \o Attr(distribution[1], "distributionDomainName"))

\* faulty variant: without a distribution the accessor returns a placeholder
customDomainUrlPlaceholder ==
  IF distribution = None THEN Returns("")
  ELSE IF customDomainName # None /\ customDomainName[1] # ""
  THEN Returns("https://" \o customDomainName[1])
  ELSE Returns("https://" \o Attr(distribution[1], "distributionDomainName"))

customDomainUrl ==
  IF distribution = None THEN Throws(NoDistributionError)
  ELSE IF customDomainName # None /\ customDomainName[1] # ""
  THEN Returns("https://" \o customDomainName[1])
  ELSE Returns("https://" \o Attr(distribution[1], "distributionDomainName"))

(***************************************************************************)
(* Deployment.  The provisioning engine takes the constructs of a finished *)
(* construction; it sends a custom resource a Create request when the      *)
(* resource is new, an Update request when its properties changed, and a   *)
(* Delete request when the resource is gone.                               *)
(***************************************************************************)
\* deployments do not go on past this time
MaxTime == 2

Synthesized ==
  [file |-> file, props |-> props, children |-> children, constructs |-> constructs,
   grants |-> grants, warnings |-> warnings, origins |-> origins,
   behaviors |-> behaviors, serverCachePolicy |-> serverCachePolicy,
   staticCachePolicy |-> staticCachePolicy, distribution |-> distribution]

\* faulty variant: a resource that stays gets an Update request whether or
\* not its properties changed
CustomResourceRequestsAlwaysUpdate(old, new) ==
  {[resource |-> id, requestType |-> "Create", properties |-> new[id].properties] :
      id \in OfType(new, "CustomResource") \ OfType(old, "CustomResource")}
  \cup {[resource |-> id, requestType |-> "Update", properties |-> new[id].properties] :
      id \in OfType(new, "CustomResource") \cap OfType(old, "CustomResource")}
  \cup {[resource |-> id, requestType |-> "Delete", properties |-> old[id].properties] :
      id \in OfType(old, "CustomResource") \ OfType(new, "CustomResource")}

\* a request carries the properties of the resource: the new ones, and on
\* Delete the ones it was deployed with
CustomResourceRequests(old, new) ==
  {[resource |-> id, requestType |-> "Create", properties |-> new[id].properties] :
      id \in OfType(new, "CustomResource") \ OfType(old, "CustomResource")}
  \cup {[resource |-> id, requestType |-> "Update", properties |-> new[id].properties] :
      id \in {i \in OfType(new, "CustomResource") \cap OfType(old, "CustomResource") :
                new[i].properties # old[i].properties}}
  \cup {[resource |-> id, requestType |-> "Delete", properties |-> old[id].properties] :
      id \in OfType(old, "CustomResource") \ OfType(new, "CustomResource")}

Deploy ==
  /\ pc = "done"
  /\ pc' = "deployed"
  /\ deployed' = Some(Synthesized)
  /\ events' = CustomResourceRequests(
                 IF deployed = None THEN <<>> ELSE deployed[1].constructs, constructs)
  /\ handled' = <<>>
  /\ request' = None
  /\ UNCHANGED <<file, props, error, site, now>>

(***************************************************************************)
(* The handler of PrewarmerFunction, lines 994-1016, which the provider    *)
(* of PrewarmerResource calls with each request for the resource.          *)
(***************************************************************************)
\* lambda.send(new InvokeCommand(...)): the promise resolves or rejects
InvokeOutcomes == {"resolved", "rejected"}

\* faulty variant: the invocation is not within try and catch
PrewarmerHandlerWithoutCatch(event, outcome) ==
  IF event.RequestType = "Delete"
  THEN [returns |-> Some([PhysicalResourceId |-> "prewarmer"]), raises |-> None,
        sent |-> <<>>, logged |-> <<>>]
  ELSE [returns |-> IF outcome = "rejected" THEN None
                    ELSE Some([PhysicalResourceId |-> "prewarmer"]),
        raises |-> IF outcome = "rejected" THEN Some("InvokeCommand rejected") ELSE None,
        sent |-> <<[FunctionName |-> event.ResourceProperties.FunctionName,
                    InvocationType |-> "RequestResponse"]>>,
        logged |-> <<>>]

\* exports.handler: what it returns, what it raises, the commands it sent
\* and what it logged, given how the invocation of the warmer ends
PrewarmerHandler(event, outcome) ==
  IF event.RequestType = "Delete"
  THEN [returns |-> Some([PhysicalResourceId |-> "prewarmer"]), raises |-> None,
        sent |-> <<>>, logged |-> <<>>]
  ELSE [returns |-> Some([PhysicalResourceId |-> "prewarmer"]), raises |-> None,
        sent |-> <<[FunctionName |-> event.ResourceProperties.FunctionName,
                    InvocationType |-> "RequestResponse"]>>,
        logged |-> IF outcome = "rejected" THEN <<"Pre-warming failed:">> ELSE <<>>]

\* the provider reports SUCCESS for a handler that returns and FAILED, which
\* fails the deployment, for one that raises
ProviderResponse(run) ==
  IF run.raises = None
  THEN [status |-> "SUCCESS", physicalResourceId |-> run.returns[1].PhysicalResourceId]
  ELSE [status |-> "FAILED", physicalResourceId |-> ""]

InvokePrewarmer ==
  /\ pc = "deployed"
  /\ \E e \in events :
       /\ e.resource = "PrewarmerResource"
       /\ e.resource \notin DOMAIN handled
       /\ \E outcome \in InvokeOutcomes :
            LET event == [RequestType |-> e.requestType,
                          ResourceProperties |-> e.properties]
                run == PrewarmerHandler(event, outcome)
            IN handled' = Spread(handled,
                 [r \in {e.resource} |->
                    [event |-> event, outcome |-> outcome, run |-> run,
                     response |-> ProviderResponse(run)]])
  /\ UNCHANGED <<file, props, pc, error, site, now, deployed, events, request>>

\* a later construction, of inputs of S, after a deployment or a failure
Redeploy(S) ==
  /\ pc \in {"deployed", "failed"}
  /\ now < MaxTime
  /\ now' = now + 1
  /\ \E i \in S : file' = i.file /\ props' = i.props
  /\ pc' = "load"
  /\ error' = ""
  /\ openNextOutput' = None
  /\ customDomainName' = None
  /\ behaviors' = None
  /\ children' = <<>>
  /\ constructs' = <<>>
  /\ grants' = {}
  /\ warnings' = <<>>
  /\ certificate' = None
  /\ origins' = None
  /\ defaultServerFunction' = None
  /\ defaultFunctionUrl' = None
  /\ serverCachePolicy' = None
  /\ staticCachePolicy' = None
  /\ distribution' = None
  /\ warmerFunction' = None
  /\ handled' = <<>>
  /\ request' = None
  /\ UNCHANGED <<deployed, events>>

Construct ==
  \/ LoadManifest
  \/ ValidateProps
  \/ CreateBucket
  \/ CreateRevalidationTable
  \/ CreateRevalidationQueue
  \/ ResolveCertificate
  \/ CreateOrigins
  \/ CreateCachePolicies
  \/ CreateDistribution
  \/ CreateWarmer

Next == Construct \/ Deploy \/ InvokePrewarmer

Spec == Init /\ [][Next]_vars

(***************************************************************************)
(* Vocabulary of the properties.                                           *)
(***************************************************************************)
FileOk == file.status = "ok"
Manifest == file.content[1]
Completed == pc \in {"done", "deployed"}

\* the concurrency in effect: warm, 1 when warm is omitted, none when false
ConcurrencyPositive ==
  \/ props.warm.kind = "omitted"
  \/ props.warm.kind = "number" /\ props.warm.n > 0
EffectiveConcurrency == IF props.warm.kind = "omitted" THEN 1 ELSE props.warm.n

HasWarmer == FileOk /\ Manifest.warmer # None
WarmingEnabled == HasWarmer /\ ConcurrencyPositive
WarmingOff == props.warm.kind = "false" \/ (props.warm.kind = "number" /\ props.warm.n <= 0)
WarmingNoCapability == FileOk /\ Manifest.warmer = None /\ ConcurrencyPositive

WarmerIds == {"WarmerFunction", "WarmerRule"}
PrewarmIds == {"PrewarmerFunction", "PrewarmerProvider", "PrewarmerResource"}
\* the warming resources declared: by id, and any rule or any function that
\* carries WARM_PARAMS
WarmingResources(cs) ==
  {id \in DOMAIN cs :
     \/ id \in WarmerIds \cup PrewarmIds
     \/ cs[id].type = "Rule"
     \/ cs[id].type = "Function" /\ "WARM_PARAMS" \in DOMAIN cs[id].environment}

OverrideBag ==
  IF props.defaultFunctionProps = None THEN <<>>
  ELSE OrElse(props.defaultFunctionProps[1].environment, <<>>)

ServerKeys == {"CACHE_BUCKET_NAME", "CACHE_BUCKET_KEY_PREFIX", "CACHE_BUCKET_REGION",
               "REVALIDATION_QUEUE_URL", "REVALIDATION_QUEUE_REGION", "CACHE_DYNAMO_TABLE"}
ImageKeys == {"BUCKET_NAME", "BUCKET_KEY_PREFIX"}

\* the construct did not set WARMER_ENABLED: the default function, once
\* declared, has the flag only as the caller's override gave it
NoWarmerFlagSet ==
  "defaultFunction" \in DOMAIN constructs =>
     LET env == constructs["defaultFunction"].environment
     IN "WARMER_ENABLED" \in DOMAIN env =>
          /\ "WARMER_ENABLED" \in DOMAIN OverrideBag
          /\ env["WARMER_ENABLED"] = OverrideBag["WARMER_ENABLED"]

(***************************************************************************)
(* C1: when the manifest carries a warmer and the effective concurrency c  *)
(* is positive, a completed construction has declared exactly one warmer   *)
(* function, whose WARM_PARAMS is [{concurrency: c, function: the default  *)
(* function's name}], and exactly one rule, whose rate is warmerInterval,  *)
(* or 5 minutes when that is omitted, whose only target is the warmer,     *)
(* with zero retries.                                                      *)
(***************************************************************************)
C1_WarmingEnabled ==
  (Completed /\ WarmingEnabled) =>
     /\ {id \in DOMAIN constructs :
           /\ constructs[id].type = "Function"
           /\ "WARM_PARAMS" \in DOMAIN constructs[id].environment} = {"WarmerFunction"}
     /\ constructs["WarmerFunction"].environment["WARM_PARAMS"] =
          "[{\"concurrency\":" \o ToString(EffectiveConcurrency)
             \o ",\"function\":\"defaultFunction.functionName\"}]"
     /\ OfType(constructs, "Rule") = {"WarmerRule"}
     /\ constructs["WarmerRule"].schedule.rate =
          (IF props.warmerInterval = None THEN 5 * 60 ELSE props.warmerInterval[1])
     /\ constructs["WarmerRule"].targets =
          <<[function |-> "WarmerFunction", retryAttempts |-> 0]>>
     /\ warmerFunction = Some("WarmerFunction")

C1_Witness ==
  /\ Completed /\ WarmingEnabled
  /\ props.warm = WarmNumber(2)
  /\ props.warmerInterval = Some(600)
  /\ "WarmerRule" \in DOMAIN constructs

(***************************************************************************)
(* C2: with warm = false or warm <= 0, whether or not the manifest carries *)
(* a warmer, no state of the construction has a warmer function, a rule, a *)
(* pre-warm function, provider or custom resource, a WARMER_ENABLED flag   *)
(* set by the construct, or a warning.                                     *)
(***************************************************************************)
C2_WarmingDisabled ==
  WarmingOff =>
     /\ WarmingResources(constructs) = {}
     /\ warmerFunction = None
     /\ grants \cap {Grant(g, f, "Invoke") : g \in WarmerIds \cup PrewarmIds,
                       f \in {"defaultFunction", "WarmerFunction"}} = {}
     /\ NoWarmerFlagSet
     /\ warnings = <<>>

C2_Witness ==
  /\ Completed
  /\ HasWarmer
  /\ props.warm = WarmNumber(-1)
  /\ WarmingResources(constructs) = {}

(***************************************************************************)
(* C3: when the manifest has no warmer and the effective concurrency is    *)
(* positive, no state of the construction has a warming resource or the    *)
(* WARMER_ENABLED flag set, the warming step never throws (it ends the     *)
(* construction successfully, declaring nothing), and a completed          *)
(* construction has emitted exactly one warning.                           *)
(***************************************************************************)
C3_NoCapabilityState ==
  WarmingNoCapability =>
     /\ WarmingResources(constructs) = {}
     /\ warmerFunction = None
     /\ NoWarmerFlagSet
     /\ Len(warnings) <= 1
     /\ Completed => warnings = <<NoWarmerWarning>>
     /\ pc = "failed" => warnings = <<>>

C3_NoCapabilityStep ==
  (pc = "warmer" /\ WarmingNoCapability) =>
     /\ pc' = "done"
     /\ error' = ""
     /\ Len(warnings') = 1
     /\ children' = children
     /\ constructs' = constructs
     /\ grants' = grants

C3_WarmingNoCapability == [](C3_NoCapabilityState) /\ [][C3_NoCapabilityStep]_vars

C3_Witness ==
  /\ pc = "done"
  /\ WarmingNoCapability
  /\ props.warm = WarmNumber(2)
  /\ Len(warnings) = 1

(***************************************************************************)
(* C4 as claimed: for every override bag the default function's            *)
(* environment has all server keys and none of the image optimizer keys,   *)
(* and the image optimizer's has the image optimizer keys and none of the  *)
(* server keys.                                                            *)
(***************************************************************************)
DefaultEnv == constructs["defaultFunction"].environment
ImageEnv == constructs["imageOptimizerFunction"].environment

SystemValue(k) ==
  CASE k = "CACHE_BUCKET_NAME" -> "S3Bucket.bucketName"
    [] k = "CACHE_BUCKET_KEY_PREFIX" -> "_cache"
    [] k = "CACHE_BUCKET_REGION" -> "AWS::Region"
    [] k = "REVALIDATION_QUEUE_URL" -> "RevalidationQueue.queueUrl"
    [] k = "REVALIDATION_QUEUE_REGION" -> "AWS::Region"
    [] k = "CACHE_DYNAMO_TABLE" -> "RevalidationTable.tableName"
    [] k = "WARMER_ENABLED" -> "true"

SystemAssignedKeys == ServerKeys \cup (IF WarmingEnabled THEN {"WARMER_ENABLED"} ELSE {})

C5_OverridePrecedence ==
  Completed =>
     /\ \A k \in SystemAssignedKeys :
           k \in DOMAIN DefaultEnv /\ DefaultEnv[k] = SystemValue(k)
     /\ \A k \in DOMAIN OverrideBag \ SystemAssignedKeys :
           k \in DOMAIN DefaultEnv /\ DefaultEnv[k] = OverrideBag[k]

C5_Witness ==
  /\ Completed
  /\ WarmingEnabled
  /\ {"CACHE_BUCKET_NAME", "WARMER_ENABLED", "CUSTOM_VAR"} \subseteq DOMAIN OverrideBag
  /\ DefaultEnv["WARMER_ENABLED"] = "true"
  /\ DefaultEnv["CUSTOM_VAR"] = CallerValue

(***************************************************************************)
(* C6: with a customDomain that has neither certificate nor hostedZone, or *)
(* that comes with createDistribution = false, the construction never gets *)
(* past the validation: it ends in an error, and no construct is declared  *)
(* in any of its states.                                                   *)
(***************************************************************************)
BadCustomDomain ==
  /\ props.customDomain # None
  /\ \/ ~props.customDomain[1].certificate /\ ~props.customDomain[1].hostedZone
     \/ props.createDistribution = Some(FALSE)

ResolvedKeys(m) ==
  {"s3", "default", "imageOptimizer"}
    \cup {m.origins.rest[i].key : i \in {j \in 1..Len(m.origins.rest) :
                                            m.origins.rest[j].origin.type = "function"}}

UnknownOriginAt(m, i) ==
  /\ m.behaviors[i].origin # None
  /\ m.behaviors[i].origin[1] \notin ResolvedKeys(m)

HasUnknownOrigin == FileOk /\ \E i \in 1..Len(Manifest.behaviors) : UnknownOriginAt(Manifest, i)

HasCheckedUnknownOrigin ==
  /\ FileOk
  /\ \E i \in 1..Len(Manifest.behaviors) :
        UnknownOriginAt(Manifest, i) /\ Manifest.behaviors[i].pattern # "*"

FailedOnUnknownOrigin ==
  /\ pc = "failed"
  /\ FileOk
  /\ \E i \in 1..Len(Manifest.behaviors) : error = OriginNotFound(Manifest.behaviors[i])

C8_Claimed_FailsBeforeResources == FailedOnUnknownOrigin => children = <<>>

(***************************************************************************)
(* C8, amended: when the construction fails because a behaviour names an   *)
(* unknown origin, the bucket, the table, the queue, the origin functions, *)
(* the server cache policy and the edge function have been declared, and   *)
(* the distribution, the DNS records and the warming resources have not.   *)
(***************************************************************************)
C8_FailsBeforeDistribution ==
  FailedOnUnknownOrigin =>
     /\ {"S3Bucket", "RevalidationTable", "RevalidationQueue", "defaultFunction",
         "imageOptimizerFunction", "OpenNextServerCachePolicy", "CloudFrontFunction"}
           \subseteq SeqToSet(children)
     /\ children[Len(children)] = "CloudFrontFunction"
     /\ OfType(constructs, "Distribution") = {}
     /\ OfType(constructs, "ARecord") \cup OfType(constructs, "AaaaRecord") = {}
     /\ WarmingResources(constructs) = {}
     /\ distribution = None

C8_Witness ==
  /\ FailedOnUnknownOrigin
  /\ "CloudFrontFunction" \in DOMAIN constructs
  /\ HasWarmer /\ ConcurrencyPositive

(***************************************************************************)
(* C10: after a completed construction url and customDomainUrl throw if    *)
(* and only if no distribution was created; with a distribution, url is    *)
(* https://<the distribution's domain name>, and customDomainUrl is        *)
(* https://<domainName> when a customDomain was configured and is url      *)
(* otherwise.                                                              *)
(***************************************************************************)
C10_UrlAccessors ==
  Completed =>
     /\ distribution = None <=> "Distribution" \notin DOMAIN constructs
     /\ url.throws # "" <=> "Distribution" \notin DOMAIN constructs
     /\ customDomainUrl.throws # "" <=> "Distribution" \notin DOMAIN constructs
     /\ "Distribution" \in DOMAIN constructs =>
          /\ url.value = "https://Distribution.distributionDomainName"
          /\ customDomainUrl.value =
               IF props.customDomain # None
               THEN "https://" \o props.customDomain[1].domainName
               ELSE url.value
     /\ "Distribution" \notin DOMAIN constructs =>
          url.value = "" /\ customDomainUrl.value = ""

C10_Witness ==
  /\ Completed
  /\ props.customDomain # None
  /\ customDomainUrl = Returns("https://example.com")
  /\ url = Returns("https://Distribution.distributionDomainName")

(***************************************************************************)
(* Two constructions, one after the other: the same site constructed       *)
(* again with other props, with and without a distribution.                *)
(***************************************************************************)
HeadlessInputs ==
  {Input(ManifestFile(m), NextjsSiteProps(warm, None, pre, cd, None, fp)) :
     m \in {OpenNextOutput(TRUE, StdBehaviors, RestOrigins),
            OpenNextOutput(FALSE, StdBehaviors, <<>>),
            OpenNextOutput(TRUE, <<[pattern |-> "*", origin |-> Some("ghost")],
                                   [pattern |-> "_next/static/*", origin |-> None]>>, <<>>),
            OpenNextOutput(TRUE, Append(StdBehaviors,
                                   [pattern |-> "api/*", origin |-> Some("ghost")]), <<>>)},
     warm \in {WarmOmitted, WarmFalse},
     pre \in {None, Some(FALSE)},
     cd \in OptBool,
     fp \in {None, Some(FunctionProps(Some([k \in OverrideKeys |-> CallerValue])))}}

InitHeadless == InitOver(HeadlessInputs)
\* the site is constructed again, with any of the inputs
RedeployHeadless ==
  /\ pc \in {"deployed", "failed"}
  /\ \E i \in HeadlessInputs : Redeploy({i})
NextHeadless == Next \/ RedeployHeadless
SpecHeadless == InitHeadless /\ [][NextHeadless]_vars

(***************************************************************************)
(* C9: of two completed constructions of the same manifest and the same    *)
(* props without customDomain, one with createDistribution = false and     *)
(* one with a distribution, the headless one declares exactly the          *)
(* constructs of the other less the distribution and the edge function, in *)
(* the same order and with the same properties (bucket, asset copies,      *)
(* table, initializer, queue, consumer, origin functions, server cache     *)
(* policy, warming resources), and the same grants; it declares no DNS     *)
(* record, and it exposes the same origins, behaviours and cache policies, *)
(* and as cloudfrontFunctionCode the code the other's edge function runs.  *)
(* The initializer's version is the time of construction, which differs    *)
(* between any two constructions, and is left out of the comparison.       *)
(***************************************************************************)
DistributionIds == {"CloudFrontFunction", "Distribution"}

\* constructs without the distribution's, the initializer's version blanked
Backend(cs) ==
  [id \in DOMAIN cs \ DistributionIds |->
     IF id = "RevalidationResource"
     THEN [cs[id] EXCEPT !.properties = [version |-> ""]]
     ELSE cs[id]]

BackendOrder(ch) == SelectSeq(ch, LAMBDA id : id \notin DistributionIds)

\* x is headless, y has a distribution, and they are otherwise alike
HeadlessTwin(x, y) ==
  /\ x.file = y.file
  /\ x.props.createDistribution = Some(FALSE)
  /\ y.props.createDistribution # Some(FALSE)
  /\ x.props.customDomain = None
  /\ [x.props EXCEPT !.createDistribution = None]
       = [y.props EXCEPT !.createDistribution = None]

SameBackend(x, y) ==
  /\ Backend(x.constructs) = Backend(y.constructs)
  /\ BackendOrder(x.children) = BackendOrder(y.children)
  /\ DOMAIN x.constructs = DOMAIN y.constructs \ DistributionIds
  /\ DistributionIds \subseteq DOMAIN y.constructs
  /\ OfType(x.constructs, "ARecord") \cup OfType(x.constructs, "AaaaRecord") = {}
  /\ x.grants = y.grants
  /\ x.warnings = y.warnings
  /\ x.distribution = None /\ y.distribution # None
  /\ x.origins # None /\ x.origins = y.origins
  /\ x.behaviors = Some(x.file.content[1].behaviors) /\ x.behaviors = y.behaviors
  /\ x.serverCachePolicy # None /\ x.serverCachePolicy = y.serverCachePolicy
  /\ x.staticCachePolicy # None /\ x.staticCachePolicy = y.staticCachePolicy
  /\ cloudfrontFunctionCode = y.constructs["CloudFrontFunction"].code

C9_HeadlessKeepsBackend ==
  (Completed /\ deployed # None) =>
     /\ HeadlessTwin(Synthesized, deployed[1]) => SameBackend(Synthesized, deployed[1])
     /\ HeadlessTwin(deployed[1], Synthesized) => SameBackend(deployed[1], Synthesized)

C9_Witness ==
  /\ Completed /\ deployed # None
  /\ HeadlessTwin(Synthesized, deployed[1])
  /\ WarmingEnabled
  /\ "PrewarmerResource" \in DOMAIN constructs
  /\ "apiFunction" \in DOMAIN constructs
  /\ "Distribution" \in DOMAIN deployed[1].constructs

(***************************************************************************)
(* Vocabulary of the distribution's behaviours.                            *)
(***************************************************************************)
HasDistribution == "Distribution" \in DOMAIN constructs
DeclaredAdditionalBehaviors == constructs["Distribution"].additionalBehaviors
ManifestPatterns == {Manifest.behaviors[i].pattern : i \in DOMAIN Manifest.behaviors}

\* C11: whenever the distribution is declared, the keys of its additional
\* behaviours are exactly the patterns of the manifest's behaviours other
\* than "*": every manifest behaviour whose pattern is not "*" has the one
\* entry under its pattern, there is no entry under any other key, and
\* never one under "*"; for the list [*, _next/image*, _next/static/*] the
\* keys are exactly _next/image* and _next/static/*.
C11_AdditionalBehaviours ==
  HasDistribution =>
     /\ DOMAIN DeclaredAdditionalBehaviors = ManifestPatterns \ {"*"}
     /\ "*" \notin DOMAIN DeclaredAdditionalBehaviors
     /\ Manifest.behaviors = StdBehaviors =>
          DOMAIN DeclaredAdditionalBehaviors = {"_next/image*", "_next/static/*"}

\* a distribution of a manifest other than the standard one, which has a
\* behaviour under "*" and one under another pattern
C11_Witness ==
  /\ HasDistribution
  /\ Manifest.behaviors # StdBehaviors
  /\ "*" \in ManifestPatterns
  /\ DOMAIN DeclaredAdditionalBehaviors = {"_next/image*"}

\* the manifest behaviour an additional behaviour was made of: the last one
\* of its pattern
EntryOf(k) ==
  LET I == {i \in DOMAIN Manifest.behaviors : Manifest.behaviors[i].pattern = k}
  IN Manifest.behaviors[CHOOSE i \in I : \A j \in I : j <= i]

ViewerRequestRewrite == [function |-> "CloudFrontFunction", eventType |-> "VIEWER_REQUEST"]

\* C12: whenever the distribution is declared, every additional behaviour is
\* bound to the resolved origin its manifest entry names, or to the resolved
\* default origin when the entry names none; its cache policy is the static
\* cache policy exactly when the entry's origin name is s3 and the server
\* cache policy otherwise; and it carries the viewer-request association of
\* the edge function, which runs the rewrite code.
C12_BehaviourBinding ==
  HasDistribution =>
     \A k \in DOMAIN DeclaredAdditionalBehaviors :
        LET e == EntryOf(k)
            b == DeclaredAdditionalBehaviors[k]
            name == OrElse(e.origin, "default")
        IN /\ name \in DOMAIN origins[1]
           /\ b.origin = origins[1][name]
           /\ (b.cachePolicy = staticCachePolicy[1]) <=> (e.origin = Some("s3"))
           /\ e.origin # Some("s3") => b.cachePolicy = serverCachePolicy[1]
           /\ \E i \in DOMAIN b.functionAssociations :
                b.functionAssociations[i] = ViewerRequestRewrite
           /\ "CloudFrontFunction" \in DOMAIN constructs
           /\ constructs["CloudFrontFunction"].code = buildCloudfrontFunctionCode

\* a distribution with an additional behaviour of an entry that names no
\* origin and one of an entry that names s3
C12_Witness ==
  /\ HasDistribution
  /\ \E k \in DOMAIN DeclaredAdditionalBehaviors :
        /\ EntryOf(k).origin = None
        /\ DeclaredAdditionalBehaviors[k].origin = origins[1]["default"]
  /\ \E k \in DOMAIN DeclaredAdditionalBehaviors :
        /\ EntryOf(k).origin = Some("s3")
        /\ DeclaredAdditionalBehaviors[k].cachePolicy = CACHING_OPTIMIZED

(***************************************************************************)
(* Vocabulary of the origin functions.                                     *)
(***************************************************************************)
OriginsCreated == origins # None
\* the extra origins of the manifest that are of type "function"
ExtraFunctionKeys ==
  {Manifest.origins.rest[i].key :
     i \in {j \in DOMAIN Manifest.origins.rest :
              Manifest.origins.rest[j].origin.type = "function"}}
\* the construct that createOrigins declares for a function origin
FunctionIdOf(key) == key \o "Function"
FunctionUrlOf(key) == constructs[FunctionIdOf(key)].url[1]

\* C13: once the origins are created, the function URL of the image
\* optimizer uses AWS_IAM authorization and its origin is a function URL
\* origin with origin access control, while the function URL of the default
\* function and of every extra function origin uses NONE authorization.
C13_InvocationAuthorization ==
  OriginsCreated =>
     /\ FunctionUrlOf("imageOptimizer").authType = "AWS_IAM"
     /\ origins[1]["imageOptimizer"].kind = "FunctionUrlOrigin"
     /\ origins[1]["imageOptimizer"].originAccessControl
     /\ \A key \in {"default"} \cup ExtraFunctionKeys :
          /\ FunctionIdOf(key) \in DOMAIN constructs
          /\ FunctionUrlOf(key).authType = "NONE"

\* the origins of a manifest with an extra function origin
C13_Witness ==
  /\ OriginsCreated
  /\ "api" \in ExtraFunctionKeys
  /\ FunctionUrlOf("api").authType = "NONE"
  /\ FunctionUrlOf("imageOptimizer").authType = "AWS_IAM"

\* the manifest's entry of a function origin
ManifestOrigin(key) ==
  IF key \in {"default", "imageOptimizer"} THEN Manifest.origins[key]
  ELSE LET i == CHOOSE j \in DOMAIN Manifest.origins.rest :
                   Manifest.origins.rest[j].key = key
       IN Manifest.origins.rest[i].origin
ComputeKeys == {"default", "imageOptimizer"} \cup ExtraFunctionKeys
\* the invoke mode a function URL is deployed with: the one given, and
\* BUFFERED when addFunctionUrl was given none
InvokeModeDeployed(key) == OrElse(FunctionUrlOf(key).invokeMode, "BUFFERED")

\* C14: once the origins are created, the function URL of every function
\* origin of the manifest (default, imageOptimizer and every extra function
\* origin) is in RESPONSE_STREAM mode if the manifest marks the origin
\* streaming: true and in BUFFERED mode otherwise.
C14_Claimed_StreamingMode ==
  OriginsCreated =>
     \A key \in ComputeKeys :
        InvokeModeDeployed(key) =
          IF ManifestOrigin(key).streaming = Some(TRUE) THEN "RESPONSE_STREAM"
          ELSE "BUFFERED"

RequiredOriginKeys == {"default", "s3", "imageOptimizer"}
\* the keys of the manifest's origins
ManifestOriginKeys ==
  RequiredOriginKeys
    \cup {Manifest.origins.rest[i].key : i \in DOMAIN Manifest.origins.rest}

\* C15 as claimed: after every successful construction the keys of the
\* exposed origins are the keys of the manifest's origins.
C15_Claimed_OriginsKeySet ==
  Completed => DOMAIN origins[1] = ManifestOriginKeys

\* C15, amended: after every successful construction the keys of the
\* exposed origins are default, s3 and imageOptimizer together with the
\* keys of the manifest's extra origins of type "function"; an extra origin
\* of another type has no descriptor.  s3 is an S3 bucket origin, the image
\* optimizer a function URL origin and every other one an HTTP origin on
\* the URL of its own function.
C15_OriginsKeySet ==
  Completed =>
     /\ DOMAIN origins[1] = RequiredOriginKeys \cup ExtraFunctionKeys
     /\ RequiredOriginKeys \subseteq DOMAIN origins[1]
     /\ origins[1]["s3"].kind = "S3BucketOrigin"
     /\ origins[1]["imageOptimizer"].kind = "FunctionUrlOrigin"
     /\ \A key \in {"default"} \cup ExtraFunctionKeys :
          /\ origins[1][key].kind = "HttpOrigin"
          /\ origins[1][key].target = Attr(FunctionIdOf(key), "url")

\* a completed construction of a manifest with an extra function origin and
\* an extra origin of type "s3"
C15_Witness ==
  /\ Completed
  /\ ManifestOriginKeys = RequiredOriginKeys \cup {"api", "docs"}
  /\ "api" \in DOMAIN origins[1]
  /\ "docs" \notin DOMAIN origins[1]

AliasRecordIds == OfType(constructs, "ARecord") \cup OfType(constructs, "AaaaRecord")

PrewarmInputs ==
  {Input(ManifestFile(OpenNextOutput(TRUE, StdBehaviors, other[1])),
         NextjsSiteProps(warm, i, pre, None, other[2], other[3])) :
     warm \in {WarmOmitted} \cup {WarmNumber(n) : n \in 1..MaxWarm},
     i \in {None, Some(300), Some(600)},
     pre \in OptBool,
     other \in {<<<<>>, None, None>>,
                <<RestOrigins, Some(CustomDomain(TRUE, FALSE)),
                  Some(FunctionProps(Some([k \in OverrideKeys |-> CallerValue])))>>}}

InitPrewarm == InitOver(PrewarmInputs)
\* the site is constructed again, with any of the inputs
RedeployPrewarm ==
  /\ pc \in {"deployed", "failed"}
  /\ \E i \in PrewarmInputs : Redeploy({i})
NextPrewarm == Next \/ RedeployPrewarm
SpecPrewarm == InitPrewarm /\ [][NextPrewarm]_vars

\* the Version of the pre-warm resource among the constructs cs, if any
PrewarmKey(cs) ==
  IF "PrewarmerResource" \in DOMAIN cs
  THEN Some(cs["PrewarmerResource"].properties.Version)
  ELSE None

\* this construction and the one deployed before it both have a key
TwoKeys ==
  /\ Completed
  /\ deployed # None
  /\ PrewarmKey(constructs) # None
  /\ PrewarmKey(deployed[1].constructs) # None
SameKey == PrewarmKey(constructs) = PrewarmKey(deployed[1].constructs)

WarmingFields(p) == <<p.warm, p.warmerInterval, p.prewarmOnDeploy>>
\* the concurrency and the interval in effect, with the defaults filled in,
\* and prewarmOnDeploy as it was given
WarmingConfiguration(p) ==
  <<IF p.warm.kind = "omitted" THEN 1 ELSE p.warm.n,
    IF p.warmerInterval = None THEN 5 ELSE p.warmerInterval[1] \div 60,
    p.prewarmOnDeploy>>

\* C17 as claimed: two constructions with a pre-warm key have the same key
\* if and only if their warm, warmerInterval and prewarmOnDeploy are the same.
C17_Claimed_PrewarmKey ==
  TwoKeys => (SameKey <=> WarmingFields(props) = WarmingFields(deployed[1].props))

\* C17, amended: two constructions with a pre-warm key have the same key if
\* and only if they agree on the concurrency in effect (warm, 1 when it is
\* omitted), the interval in effect in minutes (5 when warmerInterval is
\* omitted) and prewarmOnDeploy as given (omitted or true); the manifest,
\* the domain, the function overrides and the time of construction have no
\* part in the key.
C17_PrewarmKey ==
  TwoKeys =>
     (SameKey <=> WarmingConfiguration(props) = WarmingConfiguration(deployed[1].props))

\* two constructions at different times, of different manifests and other
\* props, one with warm omitted and one with warm: 1, that have the same key
C17_Witness ==
  /\ TwoKeys
  /\ SameKey
  /\ props.warm = WarmOmitted
  /\ deployed[1].props.warm = WarmNumber(1)
  /\ file # deployed[1].file
  /\ props.customDomain # deployed[1].props.customDomain

\* C18: however the invocation of the warmer ends, the pre-warm handler
\* raises nothing and returns the physical id "prewarmer", so that the
\* provider reports SUCCESS and the deployment does not fail; on a Delete
\* request it sends no invocation, and on any other request it sends one
\* invocation, of the warmer function.
C18_PrewarmBestEffort ==
  \A r \in DOMAIN handled :
     LET h == handled[r]
     IN /\ h.run.raises = None
        /\ h.run.returns = Some([PhysicalResourceId |-> "prewarmer"])
        /\ h.response = [status |-> "SUCCESS", physicalResourceId |-> "prewarmer"]
        /\ h.event.RequestType = "Delete" => h.run.sent = <<>>
        /\ h.event.RequestType # "Delete" =>
             h.run.sent = <<[FunctionName |-> Attr("WarmerFunction", "functionName"),
                             InvocationType |-> "RequestResponse"]>>

\* a deployment whose pre-warm invocation was rejected
C18_Witness ==
  /\ "PrewarmerResource" \in DOMAIN handled
  /\ handled["PrewarmerResource"].outcome = "rejected"
  /\ handled["PrewarmerResource"].event.RequestType \in {"Create", "Update"}
  /\ handled["PrewarmerResource"].run.logged # <<>>

\* a deployment that deleted the pre-warm resource
C18_WitnessDelete ==
  /\ "PrewarmerResource" \in DOMAIN handled
  /\ handled["PrewarmerResource"].event.RequestType = "Delete"

(***************************************************************************)
(* The edge function at work: the handler of lines 1173-1178 run on the    *)
(* headers of a viewer request.  A header is an object {value}, which is   *)
(* truthy whatever its value, so that a header is truthy when it is there. *)
(***************************************************************************)
Undefined == "undefined"
\* request.headers[name]
HeaderOf(headers, name) == IF name \in DOMAIN headers THEN headers[name] ELSE Undefined

\* one statement of the code on request.headers
Execute(st, headers) ==
  IF st.op = "setIfPresent" /\ st.source \notin DOMAIN headers THEN headers
  ELSE Spread(headers, [k \in {st.target} |-> HeaderOf(headers, st.source)])

\* function handler(event): the headers of the request it returns
RECURSIVE RunHandler(_, _)
RunHandler(code, headers) ==
  IF code = <<>> THEN headers
  ELSE RunHandler(Tail(code), Execute(Head(code), headers))

\* viewer requests: host, and any of these headers, each with a value of
\* its own
OptionalHeaders ==
  {"x-forwarded-host", "accept", "cloudfront-viewer-city", "cloudfront-viewer-country",
   "cloudfront-viewer-longitude", "x-open-next-city", "x-open-next-region"}
HeaderValue(name) == "inbound " \o name
ViewerHeaders ==
  {[h \in {"host"} \cup H |-> HeaderValue(h)] : H \in SUBSET OptionalHeaders}

\* the distribution passes a viewer request through its edge function
ViewerRequest ==
  /\ pc = "deployed"
  /\ "CloudFrontFunction" \in DOMAIN constructs
  /\ \E h \in ViewerHeaders :
       request' = Some([inbound |-> h,
                        outbound |-> RunHandler(constructs["CloudFrontFunction"].code, h)])
  /\ UNCHANGED <<file, props, pc, error, site, now, deployed, events, handled>>

EdgeInputs ==
  {Input(ManifestFile(OpenNextOutput(TRUE, StdBehaviors, <<>>)),
         NextjsSiteProps(WarmOmitted, None, None, cd, None, None)) : cd \in OptBool}
InitEdge == InitOver(EdgeInputs)
NextEdge == Next \/ ViewerRequest
SpecEdge == InitEdge /\ [][NextEdge]_vars

GeoHeader(s) == "cloudfront-viewer-" \o s
OpenNextHeader(s) == "x-open-next-" \o s
Signals == {GeoSignals[i] : i \in DOMAIN GeoSignals}

\* what a request's headers and the headers returned for it always share:
\* x-forwarded-host is the inbound host, each x-open-next-s is the inbound
\* cloudfront-viewer-s when that is present, and every header that is
\* neither x-forwarded-host nor an x-open-next-s is as it came in
RewriteCopies(in, out) ==
  /\ "x-forwarded-host" \in DOMAIN out
  /\ out["x-forwarded-host"] = in["host"]
  /\ \A s \in Signals :
       GeoHeader(s) \in DOMAIN in =>
          /\ OpenNextHeader(s) \in DOMAIN out
          /\ out[OpenNextHeader(s)] = in[GeoHeader(s)]
  /\ \A h \in (DOMAIN in \cup DOMAIN out)
               \ ({"x-forwarded-host"} \cup {OpenNextHeader(s) : s \in Signals}) :
       /\ h \in DOMAIN in
       /\ h \in DOMAIN out
       /\ out[h] = in[h]

\* the code the accessor exposes is the code of the edge function
ExposedCodeIsDeployed ==
  "CloudFrontFunction" \in DOMAIN constructs =>
     constructs["CloudFrontFunction"].code = cloudfrontFunctionCode

\* C19 as claimed: for every viewer request the edge function returns the
\* request with x-forwarded-host equal to the inbound host, each
\* x-open-next-s equal to cloudfront-viewer-s when that is present and
\* absent when it is absent, and no other header changed; and the code
\* exposed by cloudfrontFunctionCode is the code the edge function runs.
C19_Claimed_RequestRewrite ==
  /\ ExposedCodeIsDeployed
  /\ request # None =>
       /\ RewriteCopies(request[1].inbound, request[1].outbound)
       /\ \A s \in Signals :
            GeoHeader(s) \notin DOMAIN request[1].inbound =>
               OpenNextHeader(s) \notin DOMAIN request[1].outbound

\* C19, amended: as claimed, except that when cloudfront-viewer-s is absent
\* the header x-open-next-s is left as the request came in: absent if the
\* inbound request has none, and otherwise the inbound one.
C19_RequestRewrite ==
  /\ ExposedCodeIsDeployed
  /\ request # None =>
       /\ RewriteCopies(request[1].inbound, request[1].outbound)
       /\ \A s \in Signals :
            GeoHeader(s) \notin DOMAIN request[1].inbound =>
               /\ OpenNextHeader(s) \in DOMAIN request[1].outbound
                    <=> OpenNextHeader(s) \in DOMAIN request[1].inbound
               /\ OpenNextHeader(s) \in DOMAIN request[1].outbound =>
                    request[1].outbound[OpenNextHeader(s)]
                      = request[1].inbound[OpenNextHeader(s)]

\* a request with a city and no region, which brings an x-open-next-region
\* and an x-forwarded-host of its own
C19_Witness ==
  /\ request # None
  /\ {"cloudfront-viewer-city", "x-open-next-region", "x-forwarded-host", "accept"}
       \subseteq DOMAIN request[1].inbound
  /\ "cloudfront-viewer-region" \notin DOMAIN request[1].inbound
  /\ request[1].outbound["x-open-next-city"] = HeaderValue("cloudfront-viewer-city")
  /\ request[1].outbound["x-forwarded-host"] = HeaderValue("host")
  /\ "x-open-next-country" \notin DOMAIN request[1].outbound

\* the caller's defaultFunctionProps, with nothing given when they are omitted
CallerFunctionProps == OrElse(props.defaultFunctionProps, FunctionProps(None))

\* C20: once the origins are created, the function of every function origin
\* of the manifest (default, imageOptimizer and every extra function
\* origin) has the memory size, timeout, runtime and architecture of the
\* caller's defaultFunctionProps where given and 1024 MB, 10 s, Node.js 24
\* and ARM64 where not, and the handler and the code of the manifest entry.
C20_Claimed_ResourceSizing ==
  OriginsCreated =>
     \A key \in ComputeKeys :
        LET fn == constructs[FunctionIdOf(key)]
        IN /\ fn.memorySize = Some(OrElse(CallerFunctionProps.memorySize, 1024))
           /\ fn.timeout = Some(OrElse(CallerFunctionProps.timeout, 10))
           /\ fn.runtime = OrElse(CallerFunctionProps.runtime, NODEJS_24_X)
           /\ fn.architecture = OrElse(CallerFunctionProps.architecture, ARM_64)
           /\ fn.handler = ManifestOrigin(key).handler
           /\ fn.code = AssetBesideOpenNext(ManifestOrigin(key).bundle)

\* the part of C20 the default function alone would have to meet
C20_DefaultFunctionSizing ==
  OriginsCreated =>
     LET fn == constructs[FunctionIdOf("default")]
     IN /\ fn.memorySize = Some(OrElse(CallerFunctionProps.memorySize, 1024))
        /\ fn.timeout = Some(OrElse(CallerFunctionProps.timeout, 10))
        /\ fn.runtime = OrElse(CallerFunctionProps.runtime, NODEJS_24_X)
        /\ fn.architecture = OrElse(CallerFunctionProps.architecture, ARM_64)

(***************************************************************************)
(* Constructions over files that lack something: no file, no JSON, and     *)
(* JSON without origins, without one of the three required origins, or     *)
(* without behaviors; next to the complete manifest, with every            *)
(* distribution switch, with and without warming and a custom domain.      *)
(***************************************************************************)
\* the object r without its key k
Without(r, k) == [x \in DOMAIN r \ {k} |-> r[x]]

CompleteManifest == OpenNextOutput(TRUE, StdBehaviors, <<>>)
PartialManifests ==
  {Without(CompleteManifest, "origins"), Without(CompleteManifest, "behaviors")}
    \cup {[CompleteManifest EXCEPT !.origins = Without(@, k)] :
            k \in {"s3", "default", "imageOptimizer"}}

ShapeInputs ==
  {Input(f, NextjsSiteProps(warm, None, None, cd, d, None)) :
     f \in {MissingFile, MalformedFile, ManifestFile(CompleteManifest)}
             \cup {ManifestFile(m) : m \in PartialManifests},
     warm \in {WarmOmitted, WarmFalse}, cd \in OptBool,
     d \in {None, Some(CustomDomain(TRUE, TRUE))}}

InitShape == InitOver(ShapeInputs)
SpecShape == InitShape /\ [][Next]_vars

\* the file has all of the required shape
HasRequiredShape(f) ==
  /\ f.status = "ok"
  /\ {"origins", "behaviors"} \subseteq DOMAIN f.content[1]
  /\ {"default", "s3", "imageOptimizer"} \subseteq DOMAIN f.content[1].origins

(***************************************************************************)
(* C21 as claimed: when the manifest file is missing, is no JSON, or lacks *)
(* origins.default, origins.s3, origins.imageOptimizer or behaviors, the   *)
(* construction never completes, whatever the props.                       *)
(***************************************************************************)
C21_Claimed_ManifestFailsFast == ~HasRequiredShape(file) => ~Completed

\* what does hold: a file that is missing, is no JSON or lacks one of the
\* origins never completes, and one that lacks only behaviors completes
\* only without a distribution
C21_FailsWhereDereferenced ==
  (~HasRequiredShape(file) /\ Completed) =>
     /\ "behaviors" \notin DOMAIN file.content[1]
     /\ props.createDistribution = Some(FALSE)
     /\ behaviors = None

(***************************************************************************)
(* Constructions over manifests with one extra function origin, of a name  *)
(* of its own or of a name whose function id is an id the construct uses   *)
(* itself, with and without warming and a distribution.                    *)
(***************************************************************************)
ExtraOriginNames ==
  {"api", "Revalidation", "RevalidationInsert", "Warmer", "Prewarmer", "CloudFront"}

NamingInputs ==
  {Input(ManifestFile(OpenNextOutput(TRUE, StdBehaviors,
           <<[key |-> name, origin |-> FunctionOrigin(name \o "-function", None)]>>)),
         NextjsSiteProps(warm, None, None, cd, None, None)) :
     name \in ExtraOriginNames, warm \in {WarmOmitted, WarmFalse},
     cd \in {None, Some(FALSE)}}

InitNaming == InitOver(NamingInputs)
SpecNaming == InitNaming /\ [][Next]_vars

\* the functions declared from the bundle of the function origin key
UnitsOf(key) ==
  {id \in OfType(constructs, "Function") :
     constructs[id].code = AssetBesideOpenNext(ManifestOrigin(key).bundle)}

OneUnitPerComputeOrigin ==
  \A key \in ComputeKeys : UnitsOf(key) = {FunctionIdOf(key)}

PairwiseDistinctIds ==
  \A i, j \in 1..Len(children) : children[i] = children[j] => i = j

(***************************************************************************)
(* C22 as claimed: for every name of an extra function origin the          *)
(* construction does not fail; once completed it has declared exactly one  *)
(* function per function origin, and the ids of the constructs declared    *)
(* are pairwise distinct.                                                  *)
(***************************************************************************)
C22_Claimed_OneUnitPerOrigin ==
  /\ pc # "failed"
  /\ Completed => OneUnitPerComputeOrigin
  /\ PairwiseDistinctIds

\* what does hold: the ids are pairwise distinct in every state, a
\* construction that completes has one function per function origin, and a
\* construction fails only on an id declared twice
C22_UnitsWhereCompleted ==
  /\ PairwiseDistinctIds
  /\ Completed => OneUnitPerComputeOrigin
  /\ pc = "failed" =>
       \E name \in ExtraOriginNames \ {"api"} :
          /\ name \in ExtraFunctionKeys
          /\ error = DuplicateError(FunctionIdOf(name))

(***************************************************************************)
(* C23: over deployments with warming enabled and prewarmOnDeploy not      *)
(* false, a deployment sends the pre-warm resource a Create or Update      *)
(* request, on which its handler invokes the warmer once, if and only if   *)
(* it is the first deployment with pre-warming, or the concurrency in      *)
(* effect, the interval in effect or prewarmOnDeploy as given differ from  *)
(* those of the deployment before it; the request of an answered           *)
(* deployment has sent exactly one invocation, of the warmer, and a        *)
(* deployment with the same three values sends no request at all.          *)
(***************************************************************************)
PrewarmOn(p) == p.prewarmOnDeploy # Some(FALSE)

PrewarmRequests(ev) ==
  {e \in ev : e.resource = "PrewarmerResource" /\ e.requestType \in {"Create", "Update"}}

C23_DeployStep ==
  (pc = "done" /\ pc' = "deployed" /\ WarmingEnabled /\ PrewarmOn(props)) =>
     /\ Cardinality(PrewarmRequests(events')) <= 1
     /\ (PrewarmRequests(events') # {}) <=>
          \/ deployed = None
          \/ ~PrewarmOn(deployed[1].props)
          \/ WarmingConfiguration(props) # WarmingConfiguration(deployed[1].props)

C23_OneInvocationPerRequest ==
  /\ DOMAIN handled \subseteq {e.resource : e \in events}
  /\ "PrewarmerResource" \in DOMAIN handled =>
        LET h == handled["PrewarmerResource"]
        IN h.event.RequestType \in {"Create", "Update"} =>
             h.run.sent = <<[FunctionName |-> Attr("WarmerFunction", "functionName"),
                             InvocationType |-> "RequestResponse"]>>

C23_PrewarmRetrigger == [][C23_DeployStep]_vars /\ []C23_OneInvocationPerRequest

\* a later deployment with pre-warming that sends the pre-warm resource no
\* request: its warming configuration is that of the deployment before it
C23_Witness ==
  /\ pc = "deployed"
  /\ now > 1
  /\ "PrewarmerResource" \in DOMAIN constructs
  /\ props.warm = WarmNumber(1)
  /\ {e \in events : e.resource = "PrewarmerResource"} = {}

\* a second deployment with pre-warming whose request was answered
C23_WitnessRetriggered ==
  /\ pc = "deployed"
  /\ now > 1
  /\ "PrewarmerResource" \in DOMAIN handled
  /\ handled["PrewarmerResource"].event.RequestType = "Update"

(***************************************************************************)
(* C24: every completed construction has declared the custom resource      *)
(* RevalidationResource, served by the provider whose handler is the       *)
(* function that seeds the table, with the time of construction as its     *)
(* version; and every deployment, of whatever manifest and props, sends    *)
(* that resource exactly one request: Create on the first deployment, and  *)
(* afterwards Update, the version differing from the one deployed before.  *)
(***************************************************************************)
InitializerRequests(ev) == {e \in ev : e.resource = "RevalidationResource"}

C24_Declared ==
  Completed =>
     /\ OfType(constructs, "CustomResource") \ PrewarmIds = {"RevalidationResource"}
     /\ constructs["RevalidationResource"].properties = [version |-> ToString(now)]
     /\ constructs["RevalidationResource"].serviceToken =
          Attr("RevalidationProvider", "serviceToken")
     /\ constructs["RevalidationProvider"].onEventHandler = "RevalidationInsertFunction"
     /\ constructs["RevalidationInsertFunction"].code = AssetInOpenNext("dynamodb-provider")

C24_DeployStep ==
  (pc = "done" /\ pc' = "deployed") =>
     /\ Cardinality(InitializerRequests(events')) = 1
     /\ \A e \in InitializerRequests(events') :
          /\ e.requestType = (IF deployed = None THEN "Create" ELSE "Update")
          /\ e.properties = [version |-> ToString(now)]
     /\ deployed # None =>
          deployed[1].constructs["RevalidationResource"].properties.version
            # constructs["RevalidationResource"].properties.version

C24_InitializerPerDeployment == []C24_Declared /\ [][C24_DeployStep]_vars

\* a later deployment that sends the initializer an Update request and the
\* pre-warm resource, whose configuration did not change, none
C24_Witness ==
  /\ pc = "deployed"
  /\ now > 1
  /\ \E e \in events : e.resource = "RevalidationResource" /\ e.requestType = "Update"
  /\ "PrewarmerResource" \in DOMAIN constructs
  /\ {e \in events : e.resource = "PrewarmerResource"} = {}

(***************************************************************************)
(* C25: no state has a pre-warm function, provider or custom resource      *)
(* unless warming is enabled and prewarmOnDeploy is not false; a completed *)
(* construction with warming enabled and prewarmOnDeploy omitted or true   *)
(* has declared all three, the provider on the pre-warm function and the   *)
(* custom resource on the provider, naming the warmer; and one with        *)
(* warming enabled and prewarmOnDeploy = false has declared the warmer     *)
(* function and its rule and none of the three.                            *)
(***************************************************************************)
PrewarmDeclared == PrewarmIds \cap DOMAIN constructs

C25_PrewarmGating ==
  /\ PrewarmDeclared # {} => (WarmingEnabled /\ PrewarmOn(props))
  /\ (Completed /\ WarmingEnabled /\ PrewarmOn(props)) =>
        /\ PrewarmDeclared = PrewarmIds
        /\ constructs["PrewarmerFunction"].type = "Function"
        /\ constructs["PrewarmerProvider"].onEventHandler = "PrewarmerFunction"
        /\ constructs["PrewarmerResource"].serviceToken =
             Attr("PrewarmerProvider", "serviceToken")
        /\ constructs["PrewarmerResource"].properties.FunctionName =
             Attr("WarmerFunction", "functionName")
        /\ Grant("PrewarmerFunction", "WarmerFunction", "Invoke") \in grants
  /\ (Completed /\ WarmingEnabled /\ ~PrewarmOn(props)) =>
        /\ PrewarmDeclared = {}
        /\ WarmerIds \subseteq DOMAIN constructs
        /\ constructs["WarmerFunction"].type = "Function"
        /\ constructs["WarmerRule"].type = "Rule"

\* warming enabled with prewarmOnDeploy omitted: the three are declared
C25_Witness ==
  /\ Completed /\ WarmingEnabled
  /\ props.prewarmOnDeploy = None
  /\ PrewarmDeclared = PrewarmIds

\* warming enabled with prewarmOnDeploy = false: the warmer and its rule only
C25_WitnessOff ==
  /\ Completed /\ WarmingEnabled
  /\ props.prewarmOnDeploy = Some(FALSE)
  /\ PrewarmDeclared = {}
  /\ WarmerIds \subseteq DOMAIN constructs

(***************************************************************************)
(* Constructions in which the caller's defaultFunctionProps.environment    *)
(* may itself carry WARMER_ENABLED, as "true" or as another value, over    *)
(* warming enabled, disabled and without a warmer in the manifest, with an *)
(* interval that createWarmer accepts and one it does not.                 *)
(***************************************************************************)
FlagInputs ==
  {Input(ManifestFile(OpenNextOutput(w, StdBehaviors, RestOrigins)),
         NextjsSiteProps(warm, i, None, cd, None, fp)) :
     w \in BOOLEAN,
     warm \in {WarmOmitted, WarmFalse, WarmNumber(0), WarmNumber(MaxWarm)},
     i \in {None, Some(90)},
     cd \in {None, Some(FALSE)},
     fp \in {None} \cup {Some(FunctionProps(Some([k \in {"WARMER_ENABLED"} |-> v]))) :
                           v \in {"true", CallerValue}}}

InitFlag == InitOver(FlagInputs)
SpecFlag == InitFlag /\ [][Next]_vars

FlagOn(id) ==
  /\ "WARMER_ENABLED" \in DOMAIN constructs[id].environment
  /\ constructs[id].environment["WARMER_ENABLED"] = "true"

WarmerMayInvoke(id) == Grant("WarmerFunction", id, "Invoke") \in grants

\* the functions named in the WARM_PARAMS of a warmer of concurrency c
WarmingTargets ==
  {id \in OfType(constructs, "Function") :
     \E c \in 1..(MaxWarm + 1) :
        constructs["WarmerFunction"].environment["WARM_PARAMS"] =
          WarmParamsJson(c, Attr(id, "functionName"))}

OtherFunctions == OfType(constructs, "Function") \ {"defaultFunction"}

(***************************************************************************)
(* C26 as claimed: after a completed construction WARMER_ENABLED = "true"  *)
(* is in the default function's environment if and only if warming is      *)
(* enabled, and so is the warmer's right to invoke the default function.   *)
(***************************************************************************)
C26_Claimed_WarmingFlag ==
  Completed =>
     /\ FlagOn("defaultFunction") <=> WarmingEnabled
     /\ WarmerMayInvoke("defaultFunction") <=> WarmingEnabled

(***************************************************************************)
(* C26, amended: after a completed construction the warmer may invoke the  *)
(* default function if and only if warming is enabled; with warming        *)
(* enabled the default function has WARMER_ENABLED = "true", whatever the  *)
(* caller's environment holds; without, it has the key only if the         *)
(* caller's defaultFunctionProps.environment holds it, with the caller's   *)
(* value, which may be "true".  No other function has the key, the warmer  *)
(* may invoke no other function, and WARM_PARAMS names the default         *)
(* function only.                                                          *)
(***************************************************************************)
C26_WarmingFlag ==
  Completed =>
     /\ WarmerMayInvoke("defaultFunction") <=> WarmingEnabled
     /\ WarmingEnabled => FlagOn("defaultFunction")
     /\ ~WarmingEnabled => NoWarmerFlagSet
     /\ \A id \in OtherFunctions :
          /\ "WARMER_ENABLED" \notin DOMAIN constructs[id].environment
          /\ ~WarmerMayInvoke(id)
     /\ WarmingEnabled => WarmingTargets = {"defaultFunction"}

\* warming is off and the default function has the caller's WARMER_ENABLED = "true"
C26_Witness ==
  /\ Completed
  /\ ~WarmingEnabled
  /\ FlagOn("defaultFunction")
  /\ ~WarmerMayInvoke("defaultFunction")

\* warming is enabled over a caller's WARMER_ENABLED of another value
C26_WitnessEnabled ==
  /\ Completed
  /\ WarmingEnabled
  /\ OverrideBag = [k \in {"WARMER_ENABLED"} |-> CallerValue]
  /\ FlagOn("defaultFunction")
  /\ WarmerMayInvoke("defaultFunction")
  /\ "apiFunction" \in OtherFunctions

(***************************************************************************)
(* Constructions over every copy list of the s3 origin of at most MaxCopy  *)
(* rules, among them two rules for one source directory, with and without  *)
(* a distribution and warming.                                             *)
(***************************************************************************)
MaxCopy == 2

CopyRules ==
  {[from |-> "assets", to |-> "_assets"], [from |-> "cache", to |-> "_cache"],
   [from |-> "assets", to |-> "_static"]}
CopyLists == UNION {[1..n -> CopyRules] : n \in 0..MaxCopy}

CopyInputs ==
  {Input(ManifestFile([OpenNextOutput(TRUE, StdBehaviors, <<>>) EXCEPT
                         !.origins.s3.copy = c]),
         NextjsSiteProps(warm, None, None, cd, None, None)) :
     c \in CopyLists, warm \in {WarmOmitted, WarmFalse}, cd \in {None, Some(FALSE)}}

InitCopy == InitOver(CopyInputs)
SpecCopy == InitCopy /\ [][Next]_vars

CopyList == Manifest.origins.s3.copy
\* the asset copies declared, in the order of their declaration
AssetCopies ==
  SelectSeq(children, LAMBDA id : constructs[id].type = "BucketDeployment")

\* the asset copies are those of the copy list, rule by rule
OneCopyPerRule ==
  /\ Len(AssetCopies) = Len(CopyList)
  /\ \A i \in 1..Len(CopyList) :
       LET d == constructs[AssetCopies[i]]
       IN /\ d.source = AssetBesideOpenNext(CopyList[i].from)
          /\ d.destinationBucket = "S3Bucket"
          /\ d.destinationKeyPrefix = CopyList[i].to
          /\ d.prune = FALSE

(***************************************************************************)
(* C27 as claimed: for every copy list the construction does not fail,     *)
(* and once the origins are created it has declared one asset copy per     *)
(* rule of the list, from the rule's directory to the bucket at the rule's *)
(* prefix, without pruning.                                                *)
(***************************************************************************)
C27_Claimed_AssetCopies ==
  /\ pc # "failed"
  /\ OriginsCreated => OneCopyPerRule

\* what does hold: once the origins are created there is one asset copy
\* per rule; and the construction fails only on a list with two rules of
\* one source directory, on the id of the second
C27_CopiesOfDistinctSources ==
  /\ OriginsCreated => OneCopyPerRule
  /\ \A id \in OfType(constructs, "BucketDeployment") :
        constructs[id].prune = FALSE /\ constructs[id].destinationBucket = "S3Bucket"
  /\ pc = "failed" =>
        \E i, j \in 1..Len(CopyList) :
           /\ i < j
           /\ CopyList[i].from = CopyList[j].from
           /\ error = DuplicateError("OpenNextBucketDeployment" \o CopyList[j].from)

(***************************************************************************)
(* C28: for props with createDistribution = false and a customDomain that  *)
(* has neither certificate nor hostedZone, over a manifest that loads, the *)
(* construction ends at the validation with the error that customDomain    *)
(* cannot be used when createDistribution is false; and whichever of the   *)
(* two checks fails, it fails before createOrigins has run: no origin is   *)
(* resolved and nothing is declared.                                       *)
(***************************************************************************)
ViolatesBothDomainRules ==
  /\ props.createDistribution = Some(FALSE)
  /\ props.customDomain # None
  /\ ~props.customDomain[1].certificate
  /\ ~props.customDomain[1].hostedZone

IndexOf(id) == CHOOSE i \in 1..Len(children) : children[i] = id
\* b is declared only after a
Precedes(a, b) ==
  Declared(ThisScope, b) => (Declared(ThisScope, a) /\ IndexOf(a) < IndexOf(b))

OriginFunctionIds == {FunctionIdOf(k) : k \in {"default", "imageOptimizer", "api"}}

C29_DeclarationOrder ==
  /\ \A f \in OriginFunctionIds :
        \A s \in {"S3Bucket", "RevalidationTable", "RevalidationQueue"} : Precedes(s, f)
  /\ FileOk =>
        \A k \in ComputeKeys :
           \A d \in {"OpenNextServerCachePolicy", "CloudFrontFunction", "Distribution"} :
              Precedes(FunctionIdOf(k), d)
  /\ Precedes("defaultFunction", "WarmerFunction")
  /\ (pc = "warmer" \/ Declared(ThisScope, "WarmerFunction")) =>
        /\ defaultServerFunction = Some("defaultFunction")
        /\ constructs["defaultFunction"].type = "Function"

C29_Witness ==
  /\ Completed
  /\ {"apiFunction", "WarmerFunction", "Distribution"} \subseteq DOMAIN constructs
  /\ IndexOf("RevalidationQueue") < IndexOf("defaultFunction")
  /\ IndexOf("apiFunction") < IndexOf("OpenNextServerCachePolicy")
  /\ IndexOf("defaultFunction") < IndexOf("WarmerFunction")

(***************************************************************************)
(* C30: whenever the distribution is declared, its default behaviour has   *)
(* the origin resolved for "default", which is the URL of the default      *)
(* function, the server cache policy and the viewer-request function,      *)
(* whatever the manifest's behaviours say about "*"; and once the manifest *)
(* is loaded the exposed behaviors are the manifest's list as it is.       *)
(***************************************************************************)
StarEntries == {i \in 1..Len(Manifest.behaviors) : Manifest.behaviors[i].pattern = "*"}

C30_DefaultBehaviour ==
  /\ HasDistribution =>
        LET b == constructs["Distribution"].defaultBehavior
        IN /\ b.origin = origins[1]["default"]
           /\ b.origin.target = Attr("defaultFunction", "url")
           /\ b.cachePolicy = "OpenNextServerCachePolicy"
           /\ serverCachePolicy = Some(b.cachePolicy)
           /\ b.functionAssociations = <<ViewerRequestRewrite>>
           /\ b.allowedMethods = "ALLOW_ALL"
           /\ b.originRequestPolicy = Some(ALL_VIEWER_EXCEPT_HOST_HEADER)
  /\ (FileOk /\ pc # "load") => behaviors = Some(Manifest.behaviors)

\* a distribution over a manifest whose "*" entry names the bucket
C30_Witness ==
  /\ HasDistribution
  /\ \E i \in StarEntries : Manifest.behaviors[i].origin = Some("s3")
  /\ constructs["Distribution"].defaultBehavior.origin.target = Attr("defaultFunction", "url")
  /\ behaviors = Some(Manifest.behaviors)

\* a distribution over a manifest without a "*" entry
C30_WitnessNoStar ==
  /\ HasDistribution
  /\ StarEntries = {}
  /\ Manifest.behaviors # <<>>
  /\ constructs["Distribution"].defaultBehavior.origin.target = Attr("defaultFunction", "url")

====
